---- MODULE Spec2Model ----
(***************************************************************************)
(* A model of vobj (src/vobj/__init__.py): versioned objects whose stored  *)
(* records are upgraded to the latest schema when they are loaded.         *)
(*                                                                         *)
(* Python values are encoded as follows.                                   *)
(*   - a schema class is a record [version, upgraders, attrs]; version 0   *)
(*     stands for __version__ = None (an abstract schema); upgraders is    *)
(*     the key set of __vers_upgraders__; an upgrader bound method is the  *)
(*     pair <<source version, version of the schema that owns it>>;        *)
(*   - an Attribute is a record [default, validate, getstate] naming the   *)
(*     user-supplied functions by kind;                                    *)
(*   - a state dictionary is a record [vkind, version, attrs]: vkind says  *)
(*     whether the "__version__" key is absent, a non-integer or an        *)
(*     integer, attrs is the mapping of the remaining keys;                *)
(*   - __vers_values__ of an object is [init, vals]; init = FALSE is a     *)
(*     schema instance whose __vers_values__ is still None.                *)
(***************************************************************************)
EXTENDS Integers, Sequences, FiniteSets, TLC

\* ------------------------------------------------------------------ bounds
\* Longest lineage explored.
MaxVersions == 5
\* Most upgraders one schema declares.
MaxUpgraders == 2
\* Largest attribute value in inputs.
MaxValue == 1
\* Longest lineage of the object specification.
MaxObjVersions == 2
\* Largest schema version in a class namespace.
MaxSchemaVersion == 3
\* Most members of a class namespace.
MaxMembers == 3
\* Largest number of schemas of a lineage whose SmartVersion is queried.
MaxSmartVersions == 4
\* Largest version a stand-in master may hold in its cache.
MaxCached == 2
\* Largest absolute value of the operands of the operators.
MaxOperand == 2

\* --------------------------------------------------------------- encoding
\* The _unset sentinel of Attribute defaults.
Unset == -1

EmptyMap == [k \in {} |-> 0]

Min(S) == CHOOSE x \in S : \A y \in S : x <= y

\* range(a, b) of Python
Range(a, b) == { i \in a..(b - 1) : TRUE }

\* ------------------------------------------------- user-supplied functions
\* Attribute.validate: "ident" is the default lambda x: x, "parity"
\* canonicalises, "nonzero" raises ValueError on 0, "dec" undoes the "inc"
\* serializer.
ValidatorKinds == {"ident", "parity", "nonzero", "dec"}

\* Attribute.getstate: "ident" is the default lambda x: x, "inc" stores a
\* shifted form (as getstate=str stores a different form).
SerializerKinds == {"ident", "inc"}

validate(kind, x) ==
    CASE kind = "ident" -> [ok |-> TRUE, val |-> x]
      [] kind = "parity" -> [ok |-> TRUE, val |-> x % 2]
      [] kind = "nonzero" -> [ok |-> x # 0, val |-> x]
      [] kind = "dec" -> [ok |-> TRUE, val |-> x - 1]

getstate(kind, x) ==
    CASE kind = "ident" -> x
      [] kind = "inc" -> x + 1

Attribute(default, v, g) == [default |-> default, validate |-> v, getstate |-> g]

\* An upgrader method of a schema: takes the attribute mapping of the old
\* version and returns the mapping of its own version.  The modelled
\* upgraders leave a trace of themselves in every value (a decimal digit
\* holding the version they upgrade to).
UpgraderMethod(upgrader, attrs) ==
    [k \in DOMAIN attrs |-> attrs[k] * 10 + upgrader[2]]

\* ------------------------------------------------------------ _call_upgrader
call_upgrader_keep_version(upgrader, state) ==
    [vkind |-> state.vkind, version |-> state.version,
     attrs |-> UpgraderMethod(upgrader, state.attrs)]

call_upgrader(upgrader, state) ==
    [vkind |-> "int", version |-> upgrader[2],
     attrs |-> UpgraderMethod(upgrader, state.attrs)]

call_upgrader_effect_inplace(upgrader, st) ==
    LET stripped == [st EXCEPT !.vkind = "absent", !.version = 0]
    IN  [caller |-> stripped, received |-> stripped]

\* What _call_upgrader does to the mappings involved: the caller's mapping
\* after the call and the mapping the upgrader receives, a copy from which
\* the "__version__" key has been deleted.
call_upgrader_effect(upgrader, st) ==
    LET copy == st
        stripped == [copy EXCEPT !.vkind = "absent", !.version = 0]
    IN  [caller |-> st, received |-> stripped]

\* ------------------------------------------------------ Schema.__setstate__
\* The result of Schema.__setstate__: err is "" on success, else the
\* exception raised; vals is the new __vers_values__ on success.
SchemaVersionOk(cls, state) ==
    state.vkind = "int" /\ state.version = cls.version

SchemaKeysOk(cls, state) == DOMAIN state.attrs = DOMAIN cls.attrs

SchemaValuesOk(cls, state) ==
    \A k \in DOMAIN state.attrs \cap DOMAIN cls.attrs :
        validate(cls.attrs[k].validate, state.attrs[k]).ok

Schema_setstate_unvalidated(cls, state) ==
    IF cls.version = 0 THEN [err |-> "TypeError", vals |-> EmptyMap]
    ELSE IF ~SchemaVersionOk(cls, state)
         THEN [err |-> "ValueError", vals |-> EmptyMap]
    ELSE IF ~SchemaKeysOk(cls, state)
         THEN [err |-> "ValueError", vals |-> EmptyMap]
    ELSE [err |-> "", vals |-> state.attrs]

Schema_setstate_defaults(cls, state) ==
    IF cls.version = 0 THEN [err |-> "TypeError", vals |-> EmptyMap]
    ELSE IF ~SchemaVersionOk(cls, state)
         THEN [err |-> "ValueError", vals |-> EmptyMap]
    ELSE IF \E k \in DOMAIN state.attrs : k \notin DOMAIN cls.attrs
         THEN [err |-> "ValueError", vals |-> EmptyMap]
    ELSE IF \E k \in DOMAIN cls.attrs :
                k \notin DOMAIN state.attrs /\ cls.attrs[k].default = Unset
         THEN [err |-> "ValueError", vals |-> EmptyMap]
    ELSE IF \E k \in DOMAIN state.attrs :
                ~validate(cls.attrs[k].validate, state.attrs[k]).ok
         THEN [err |-> "ValueError", vals |-> EmptyMap]
    ELSE [err |-> "",
          vals |-> [k \in DOMAIN cls.attrs |->
                      IF k \in DOMAIN state.attrs
                      THEN validate(cls.attrs[k].validate, state.attrs[k]).val
                      ELSE cls.attrs[k].default]]

Schema_setstate(cls, state) ==
    IF cls.version = 0 THEN [err |-> "TypeError", vals |-> EmptyMap]
    ELSE IF ~SchemaVersionOk(cls, state)
         THEN [err |-> "ValueError", vals |-> EmptyMap]
    ELSE IF ~SchemaKeysOk(cls, state)
         THEN [err |-> "ValueError", vals |-> EmptyMap]
    ELSE IF ~SchemaValuesOk(cls, state)
         THEN [err |-> "ValueError", vals |-> EmptyMap]
    ELSE [err |-> "",
          vals |-> [k \in DOMAIN cls.attrs |->
                      validate(cls.attrs[k].validate, state.attrs[k]).val]]

\* ------------------------------------------------------- Schema.__getstate__
Schema_getstate(cls, values) ==
    [vkind |-> "int", version |-> cls.version,
     attrs |-> [k \in DOMAIN values.vals |->
                  getstate(cls.attrs[k].getstate, values.vals[k])]]

\* ------------------------------------------------------------------ state
VARIABLES
    vers_schemas,   \* cls.__vers_schemas__: the lineage, oldest schema first
    obj,            \* the versioned object __setstate__ runs on (self)
    state,          \* the state dictionary being loaded
    version,        \* local of VObject.__setstate__: the stored version
    schema,         \* local: index in vers_schemas of the current schema
    schema_vers,    \* local: version the chain found so far starts from
    upgraders,      \* local: the pipeline, in the order of discovery
    ncalled,        \* number of upgraders of the pipeline already called
    calls,          \* observation: every call made so far, in order
    pc,             \* position in VObject.__setstate__
    err,            \* the exception raised, "" if none
    orig,           \* an object built by VObject.__init__
    src,            \* where the state being loaded comes from
    record,         \* what orig.to_dict() returned, when src = "to_dict"
    sch,            \* a schema instance: its __vers_values__
    sch_cls,        \* the class of sch
    sch_arg,        \* the state handed to sch.__setstate__
    sch_err,        \* the exception sch.__setstate__ raised, "" if none
    sch_op,         \* the last operation on the live schema instance sch
    sch_dict,       \* the undeclared attributes set on the instance sch
    namespace,      \* the namespace of a VObject subclass being defined
    vobject,        \* the outcome of VObjectMeta.__new__ on namespace
    body,           \* the class body of a Schema subclass being defined
    schema_new,     \* the outcome of SchemaMeta.__new__ on body
    cache,          \* __vers_cache__ of a stand-in master object
    answer          \* the outcome of the last operation on a SmartVersion

objvars == <<orig, src, record>>

schvars == <<sch, sch_cls, sch_arg, sch_err, sch_op, sch_dict>>

metavars == <<namespace, vobject>>

classvars == <<body, schema_new>>

smartvars == <<cache, answer>>

setstatevars == <<obj, state, version, schema, schema_vers, upgraders,
                  ncalled, calls, pc, err>>

vars == <<vers_schemas, setstatevars, objvars, schvars, metavars, classvars,
          smartvars>>

\* SmartVersion(version, schema, master): schema is <<>> for None and
\* <<cls>> for a schema class; master is "" for None and the identity of
\* the bound object otherwise.
SmartVersion(v, latest, master) ==
    [version |-> v, schema |-> latest, master |-> master]

\* last_schema of VObjectMeta.__new__: None without schemas.
LastSchema(schemas) ==
    IF Len(schemas) = 0 THEN <<>> ELSE <<schemas[Len(schemas)]>>

\* The class attribute __version__ set by VObjectMeta.__new__.
ClassVersion(schemas) == SmartVersion(Len(schemas), LastSchema(schemas), "")

\* A new instance of identity id before __vers_init__: no instance
\* attributes, so __version__ is still the class attribute.
Instance(id, schemas) ==
    [id |-> id,
     has_values |-> FALSE,
     values |-> [init |-> FALSE, vals |-> EmptyMap],
     version |-> ClassVersion(schemas)]

\* The instance from_dict makes and hands to __setstate__.
EmptyObject(schemas) == Instance("obj", schemas)

vers_init_unbound(schemas, o, values) ==
    [id |-> o.id,
     has_values |-> TRUE,
     values |-> values,
     version |-> SmartVersion(o.version.version,
                              <<schemas[Len(schemas)]>>, "")]

\* VObject.__vers_init__(values) with version=None.
vers_init(schemas, o, values) ==
    [id |-> o.id,
     has_values |-> TRUE,
     values |-> values,
     version |-> SmartVersion(o.version.version,
                              <<schemas[Len(schemas)]>>, o.id)]

\* ------------------------------------------------- VObject.__setstate__
\* The scan "for trial_vers in range(version, schema_vers)" on a schema.
TrialsLargest(cls, v, sv) ==
    LET found == { t \in Range(v, sv) : t \in cls.upgraders }
    IN  IF found = {} THEN 0 ELSE CHOOSE t \in found : \A u \in found : u <= t

TrialsSkipFirst(cls, v, sv) ==
    LET found == { t \in Range(v + 1, sv) : t \in cls.upgraders }
    IN  IF found = {} THEN 0 ELSE Min(found)

TrialsAnywhere(cls, v, sv) ==
    LET found == { t \in Range(1, sv) : t \in cls.upgraders }
    IN  IF found = {} THEN 0 ELSE Min(found)

Trials(cls, v, sv) ==
    LET found == { t \in Range(v, sv) : t \in cls.upgraders }
    IN  IF found = {} THEN 0 ELSE Min(found)

\* "for upgrader in reversed(upgraders)": the next one to call when n of
\* them have been called.
NextUpgraderForward(ups, n) == ups[n + 1]

NextUpgrader(ups, n) == ups[Len(ups) - n]

Raise(e) ==
    /\ pc' = "error"
    /\ err' = e

\* if not getattr(self, '__vers_schemas__', None): raise TypeError
SetStateAbstract ==
    /\ pc = "start"
    /\ Len(vers_schemas) = 0
    /\ Raise("abstract")
    /\ UNCHANGED <<classvars, smartvars,
                   vers_schemas, obj, state, version, schema, schema_vers,
                   upgraders, ncalled, calls>>
    /\ UNCHANGED <<classvars, smartvars, objvars, schvars, metavars>>

\* if '__version__' not in state: raise TypeError
SetStateUnversioned ==
    /\ pc = "start"
    /\ Len(vers_schemas) > 0
    /\ state.vkind = "absent"
    /\ Raise("unversioned")
    /\ schema' = Len(vers_schemas)
    /\ schema_vers' = vers_schemas[Len(vers_schemas)].version
    /\ UNCHANGED <<classvars, smartvars,
                   vers_schemas, obj, state, version, upgraders, ncalled,
                   calls>>
    /\ UNCHANGED <<classvars, smartvars, objvars, schvars, metavars>>

VersionValidNoUpper(st, sv) == st.vkind = "int" /\ st.version >= 1

VersionValid(st, sv) ==
    st.vkind = "int" /\ st.version >= 1 /\ st.version <= sv

\* if not isinstance(version, (int, long)) or version < 1 or
\*    version > schema_vers: raise TypeError
SetStateInvalidVersion ==
    /\ pc = "start"
    /\ Len(vers_schemas) > 0
    /\ state.vkind # "absent"
    /\ ~VersionValid(state, vers_schemas[Len(vers_schemas)].version)
    /\ Raise("invalid version")
    /\ schema' = Len(vers_schemas)
    /\ schema_vers' = vers_schemas[Len(vers_schemas)].version
    /\ UNCHANGED <<classvars, smartvars,
                   vers_schemas, obj, state, version, upgraders, ncalled,
                   calls>>
    /\ UNCHANGED <<classvars, smartvars, objvars, schvars, metavars>>

\* The version is valid: upgraders = [] and the while loop is entered.
SetStateBegin ==
    /\ pc = "start"
    /\ Len(vers_schemas) > 0
    /\ state.vkind # "absent"
    /\ VersionValid(state, vers_schemas[Len(vers_schemas)].version)
    /\ version' = state.version
    /\ schema' = Len(vers_schemas)
    /\ schema_vers' = vers_schemas[Len(vers_schemas)].version
    /\ upgraders' = <<>>
    /\ pc' = "resolve"
    /\ UNCHANGED <<classvars, smartvars,
                   vers_schemas, obj, state, ncalled, calls, err>>
    /\ UNCHANGED <<classvars, smartvars, objvars, schvars, metavars>>

\* One iteration of the while loop whose for loop finds an upgrader.
ResolveStep ==
    /\ pc = "resolve"
    /\ version # schema_vers
    /\ LET trial_vers == Trials(vers_schemas[schema], version, schema_vers)
       IN  /\ trial_vers # 0
           /\ upgraders' = Append(upgraders,
                                  <<trial_vers, vers_schemas[schema].version>>)
           /\ schema' = trial_vers
           /\ schema_vers' = trial_vers
    /\ UNCHANGED <<classvars, smartvars,
                   vers_schemas, obj, state, version, ncalled, calls, pc, err>>
    /\ UNCHANGED <<classvars, smartvars, objvars, schvars, metavars>>

\* The for loop runs to its else clause: raise TypeError("missing upgrader")
ResolveMissing ==
    /\ pc = "resolve"
    /\ version # schema_vers
    /\ Trials(vers_schemas[schema], version, schema_vers) = 0
    /\ Raise("missing upgrader")
    /\ UNCHANGED <<classvars, smartvars,
                   vers_schemas, obj, state, version, schema, schema_vers,
                   upgraders, ncalled, calls>>
    /\ UNCHANGED <<classvars, smartvars, objvars, schvars, metavars>>

\* while version != schema_vers: the loop ends.
ResolveDone ==
    /\ pc = "resolve"
    /\ version = schema_vers
    /\ pc' = "upgrade"
    /\ ncalled' = 0
    /\ UNCHANGED <<classvars, smartvars,
                   vers_schemas, obj, state, version, schema, schema_vers,
                   upgraders, calls, err>>
    /\ UNCHANGED <<classvars, smartvars, objvars, schvars, metavars>>

\* state = _call_upgrader(upgrader, state), for the next upgrader
CallUpgrader ==
    /\ pc = "upgrade"
    /\ ncalled < Len(upgraders)
    /\ LET upgrader == NextUpgrader(upgraders, ncalled)
           ret == call_upgrader(upgrader, state)
           eff == call_upgrader_effect(upgrader, state)
       IN  /\ state' = ret
           /\ calls' = Append(calls, [op |-> "upgrader", upgrader |-> upgrader,
                                      arg |-> state, ret |-> ret,
                                      received |-> eff.received,
                                      after |-> eff.caller])
    /\ ncalled' = ncalled + 1
    /\ UNCHANGED <<classvars, smartvars,
                   vers_schemas, obj, version, schema, schema_vers, upgraders,
                   pc, err>>
    /\ UNCHANGED <<classvars, smartvars, objvars, schvars, metavars>>

\* self.__vers_init__(target()); self.__vers_values__.__setstate__(state)
LoadState ==
    /\ pc = "upgrade"
    /\ ncalled = Len(upgraders)
    /\ LET target == vers_schemas[Len(vers_schemas)]
           res == Schema_setstate(target, state)
           blank == [init |-> FALSE, vals |-> EmptyMap]
       IN  /\ obj' = vers_init(vers_schemas, obj,
                               IF res.err = "" THEN [init |-> TRUE, vals |-> res.vals]
                               ELSE blank)
           /\ pc' = IF res.err = "" THEN "done" ELSE "error"
           /\ err' = res.err
           /\ calls' = Append(calls, [op |-> "setstate", upgrader |-> <<0, target.version>>,
                                      arg |-> state, ret |-> state,
                                      received |-> state, after |-> state])
    /\ UNCHANGED <<classvars, smartvars,
                   vers_schemas, state, version, schema, schema_vers,
                   upgraders, ncalled>>
    /\ UNCHANGED <<classvars, smartvars, objvars, schvars, metavars>>

SetState ==
    \/ SetStateAbstract
    \/ SetStateUnversioned
    \/ SetStateInvalidVersion
    \/ SetStateBegin
    \/ ResolveStep
    \/ ResolveMissing
    \/ ResolveDone
    \/ CallUpgrader
    \/ LoadState

\* ------------------------------------------------------- blank values
\* __vers_values__ = None
BlankValues == [init |-> FALSE, vals |-> EmptyMap]

\* No state dictionary.
NoState == [vkind |-> "absent", version |-> 0, attrs |-> EmptyMap]

\* vobj.Schema itself: no __version__, no attributes.
AbstractSchema ==
    [version |-> 0, upgraders |-> {}, downgraders |-> {}, attrs |-> EmptyMap]

\* No operation has been applied to a SmartVersion.
NoAnswer ==
    [op |-> "", sv |-> SmartVersion(0, <<>>, ""), key |-> 0, err |-> "",
     len |-> 0, found |-> FALSE, avail |-> {}, item |-> "",
     consulted |-> FALSE,
     operand |-> [smart |-> FALSE, val |-> 0, sv |-> SmartVersion(0, <<>>, "")],
     side |-> "",
     value |-> [err |-> "", kind |-> "", val |-> 0, aux |-> 0]]

\* No operation has been applied to a schema instance.
NoSchemaOp ==
    [op |-> "", name |-> "", value |-> 0, given |-> FALSE, arg |-> NoState,
     before |-> BlankValues, err |-> "", equal |-> FALSE, ret |-> NoState,
     received |-> NoState, down |-> <<0, 0, "">>]

\* No class has been constructed from the namespace.
NoVObject ==
    [status |-> "none", schemas |-> <<>>, version |-> SmartVersion(0, <<>>, ""),
     downgraders |-> EmptyMap]

\* The locals of VObject.__setstate__ before a call.
SetStateIdle ==
    /\ obj = EmptyObject(vers_schemas)
    /\ state = NoState
    /\ version = 0
    /\ schema = 0
    /\ schema_vers = 0
    /\ upgraders = <<>>
    /\ ncalled = 0
    /\ calls = <<>>
    /\ err = ""

\* ----------------------------------------------------------- Schema.__init__
\* Schema.__init__(values) with a dictionary: err is "" on success.
Schema_init(cls, values) ==
    IF \E k \in DOMAIN cls.attrs :
          k \notin DOMAIN values /\ cls.attrs[k].default = Unset
    THEN [err |-> "TypeError", vals |-> EmptyMap]
    ELSE IF \E k \in DOMAIN cls.attrs \cap DOMAIN values :
               ~validate(cls.attrs[k].validate, values[k]).ok
    THEN [err |-> "ValueError", vals |-> EmptyMap]
    ELSE [err |-> "",
          vals |-> [k \in DOMAIN cls.attrs |->
                      IF k \in DOMAIN values
                      THEN validate(cls.attrs[k].validate, values[k]).val
                      ELSE cls.attrs[k].default]]

\* ------------------------------------------------------ versioned objects
\* Names that state dictionaries and keyword arguments may use.
Names == {"a", "b"}

\* Attribute values.
Values == 0..MaxValue

\* Mappings from some of the names to values.
Mappings == UNION { [D -> Values] : D \in SUBSET Names }

\* orig = cls(**kwargs), VObject.__init__: builds the latest schema from
\* kwargs and binds the object; when Schema.__init__ raises, nothing is
\* assigned.
New(kwargs) ==
    /\ pc = "idle"
    /\ Len(vers_schemas) > 0
    /\ LET res == Schema_init(vers_schemas[Len(vers_schemas)], kwargs)
       IN  orig' = IF res.err = ""
                   THEN vers_init(vers_schemas, Instance("orig", vers_schemas),
                                  [init |-> TRUE, vals |-> res.vals])
                   ELSE orig
    /\ UNCHANGED <<classvars, smartvars,
                   vers_schemas, setstatevars, src, record, schvars, metavars>>

\* VObject.__setattr__(name, value) for a declared attribute, delegated to
\* Schema.__setattr__: the validated value is stored, unless the validator
\* raises.
SetAttr(name, value) ==
    /\ pc = "idle"
    /\ orig.has_values
    /\ orig.values.init
    /\ name \in DOMAIN vers_schemas[Len(vers_schemas)].attrs
    /\ LET res == validate(vers_schemas[Len(vers_schemas)].attrs[name].validate,
                           value)
       IN  /\ res.ok
           /\ orig' = [orig EXCEPT !.values.vals[name] = res.val]
    /\ UNCHANGED <<classvars, smartvars,
                   vers_schemas, setstatevars, src, record, schvars, metavars>>

\* cls.from_dict(values): a fresh instance, then __setstate__(values).
FromDict(values) ==
    /\ pc = "idle"
    /\ SetStateIdle
    /\ state' = values
    /\ src' = "dict"
    /\ record' = NoState
    /\ pc' = "start"
    /\ UNCHANGED <<classvars, smartvars,
                   vers_schemas, obj, version, schema, schema_vers, upgraders,
                   ncalled, calls, err, orig, schvars, metavars>>

\* cls.from_dict(orig.to_dict()); to_dict is VObject.__getstate__.
FromDictToDict ==
    /\ pc = "idle"
    /\ SetStateIdle
    /\ orig.has_values
    /\ orig.values.init
    /\ LET d == Schema_getstate(vers_schemas[Len(vers_schemas)], orig.values)
       IN  /\ state' = d
           /\ record' = d
    /\ src' = "to_dict"
    /\ pc' = "start"
    /\ UNCHANGED <<classvars, smartvars,
                   vers_schemas, obj, version, schema, schema_vers, upgraders,
                   ncalled, calls, err, orig, schvars, metavars>>

\* sch = cls(); sch.__setstate__(st) on a schema of the lineage, or on an
\* instance forced into the abstract Schema class.
SchemaSetState(cls, st) ==
    /\ pc = "idle"
    /\ LET res == Schema_setstate(cls, st)
       IN  /\ sch' = IF res.err = "" THEN [init |-> TRUE, vals |-> res.vals]
                     ELSE BlankValues
           /\ sch_err' = res.err
    /\ sch_cls' = cls
    /\ sch_arg' = st
    /\ pc' = "sch_done"
    /\ UNCHANGED <<classvars, smartvars,
                   vers_schemas, obj, state, version, schema, schema_vers,
                   upgraders, ncalled, calls, err, objvars, metavars,
                   sch_op, sch_dict>>

Schema_new_unchecked(cls, given, values) ==
    IF ~given THEN [err |-> "", sch |-> BlankValues]
    ELSE LET res == Schema_init(cls, values)
         IN  IF res.err = ""
             THEN [err |-> "", sch |-> [init |-> TRUE, vals |-> res.vals]]
             ELSE [err |-> res.err, sch |-> BlankValues]

\* Schema.__new__ and Schema.__init__: cls() when given is FALSE,
\* cls(values) otherwise. err is "" when an instance is made.
Schema_new(cls, given, values) ==
    IF cls.version = 0 THEN [err |-> "TypeError", sch |-> BlankValues]
    ELSE IF ~given THEN [err |-> "", sch |-> BlankValues]
    ELSE LET res == Schema_init(cls, values)
         IN  IF res.err = ""
             THEN [err |-> "", sch |-> [init |-> TRUE, vals |-> res.vals]]
             ELSE [err |-> res.err, sch |-> BlankValues]

\* sch = cls() or sch = cls(values): the instance lives on when no
\* exception is raised.
SchemaNew(cls, given, values) ==
    /\ pc = "idle"
    /\ LET res == Schema_new(cls, given, values)
       IN  /\ sch' = res.sch
           /\ sch_op' = [NoSchemaOp EXCEPT !.op = "new", !.given = given,
                                           !.arg = [NoState EXCEPT !.attrs = values],
                                           !.err = res.err]
           /\ pc' = IF res.err = "" THEN "sch_live" ELSE "sch_none"
    /\ sch_cls' = cls
    /\ sch_dict' = EmptyMap
    /\ UNCHANGED <<classvars, smartvars,
                   vers_schemas, obj, state, version, schema, schema_vers,
                   upgraders, ncalled, calls, err, objvars, metavars,
                   sch_arg, sch_err>>

\* ------------------------------------------- operations on Schema instances
\* The result of an operation on a schema instance: the exception raised
\* ("" for none), the value returned, and __vers_values__ and the instance
\* dictionary after it.
SchemaResult(error, value, values, dict) ==
    [err |-> error, value |-> value, values |-> values, dict |-> dict]

Schema_getattr_unguarded(cls, values, dict, name) ==
    IF name \notin DOMAIN cls.attrs \/ name \notin DOMAIN values.vals
    THEN SchemaResult("AttributeError", 0, values, dict)
    ELSE SchemaResult("", values.vals[name], values, dict)

\* Schema.__getattr__(name), called for a name that normal lookup does not
\* find.
Schema_getattr(cls, values, dict, name) ==
    IF ~values.init THEN SchemaResult("RuntimeError", 0, values, dict)
    ELSE IF name \notin DOMAIN cls.attrs
    THEN SchemaResult("AttributeError", 0, values, dict)
    ELSE SchemaResult("", values.vals[name], values, dict)

Schema_setattr_unvalidated(cls, values, dict, name, value) ==
    IF ~values.init THEN SchemaResult("RuntimeError", 0, values, dict)
    ELSE SchemaResult("", 0,
                      [values EXCEPT !.vals =
                          [k \in DOMAIN @ \cup {name} |->
                             IF k = name THEN value ELSE @[k]]],
                      dict)

\* Schema.__setattr__(name, value): a declared attribute is validated and
\* stored in __vers_values__, any other name goes to the instance
\* dictionary.
Schema_setattr(cls, values, dict, name, value) ==
    IF ~values.init THEN SchemaResult("RuntimeError", 0, values, dict)
    ELSE IF name \in DOMAIN cls.attrs
    THEN LET v == validate(cls.attrs[name].validate, value)
         IN  IF ~v.ok THEN SchemaResult("ValueError", 0, values, dict)
             ELSE SchemaResult("", 0,
                               [values EXCEPT !.vals =
                                   [k \in DOMAIN @ \cup {name} |->
                                      IF k = name THEN v.val ELSE @[k]]],
                               dict)
    ELSE SchemaResult("", 0, values,
                      [k \in DOMAIN dict \cup {name} |->
                         IF k = name THEN value ELSE dict[k]])

\* Schema.__delattr__(name): refused for a declared attribute; any other
\* name is deleted from the instance dictionary, where object.__delattr__
\* raises AttributeError when it is not there.
Schema_delattr(cls, values, dict, name) ==
    IF ~values.init THEN SchemaResult("RuntimeError", 0, values, dict)
    ELSE IF name \in DOMAIN cls.attrs
    THEN SchemaResult("AttributeError", 0, values, dict)
    ELSE IF name \notin DOMAIN dict
    THEN SchemaResult("AttributeError", 0, values, dict)
    ELSE SchemaResult("", 0, values, [k \in DOMAIN dict \ {name} |-> dict[k]])

\* Schema.__eq__(other): other is the class and the __vers_values__ of the
\* other instance.
Schema_eq(cls, values, other) ==
    IF ~values.init THEN [err |-> "RuntimeError", equal |-> FALSE]
    ELSE IF cls # other.cls THEN [err |-> "", equal |-> FALSE]
    ELSE [err |-> "", equal |-> other.values.init /\ values.vals = other.values.vals]

\* Schema.__ne__(other)
Schema_ne(cls, values, other) ==
    IF ~values.init THEN [err |-> "RuntimeError", equal |-> FALSE]
    ELSE IF cls # other.cls THEN [err |-> "", equal |-> TRUE]
    ELSE [err |-> "", equal |-> ~(other.values.init /\ values.vals = other.values.vals)]

\* The other instances compared with: the instance itself, an
\* uninitialized instance of the class, an instance of another class with
\* the same values, and an instance of the class holding zeros.
OtherKinds == {"self", "blank", "alien", "zeros"}

Other(kind) ==
    CASE kind = "self" -> [cls |-> sch_cls, values |-> sch]
      [] kind = "blank" -> [cls |-> sch_cls, values |-> BlankValues]
      [] kind = "alien" -> [cls |-> [sch_cls EXCEPT !.version = @ + 1], values |-> sch]
      [] kind = "zeros" ->
            [cls |-> sch_cls,
             values |-> [init |-> TRUE, vals |-> [k \in DOMAIN sch_cls.attrs |-> 0]]]

\* An operation on the live instance sch has been carried out.
SchemaStep(op, name, value, res) ==
    /\ sch' = res.values
    /\ sch_dict' = res.dict
    /\ sch_op' = [NoSchemaOp EXCEPT !.op = op, !.name = name, !.value = value,
                                    !.before = sch, !.err = res.err,
                                    !.ret = [NoState EXCEPT !.version = res.value]]
    /\ UNCHANGED <<classvars, smartvars,
                   vers_schemas, setstatevars, objvars, metavars,
                   sch_cls, sch_arg, sch_err>>

\* sch.name: found in the instance dictionary, or handed to __getattr__.
SchemaGetAttr(name) ==
    /\ pc = "sch_live"
    /\ SchemaStep("getattr", name, 0,
                  IF name \in DOMAIN sch_dict
                  THEN SchemaResult("", sch_dict[name], sch, sch_dict)
                  ELSE Schema_getattr(sch_cls, sch, sch_dict, name))

\* sch.name = value
SchemaSetAttr(name, value) ==
    /\ pc = "sch_live"
    /\ SchemaStep("setattr", name, value,
                  Schema_setattr(sch_cls, sch, sch_dict, name, value))

\* del sch.name
SchemaDelAttr(name) ==
    /\ pc = "sch_live"
    /\ SchemaStep("delattr", name, 0, Schema_delattr(sch_cls, sch, sch_dict, name))

\* sch == other
SchemaEq(kind) ==
    /\ pc = "sch_live"
    /\ LET res == Schema_eq(sch_cls, sch, Other(kind))
       IN  sch_op' = [NoSchemaOp EXCEPT !.op = "eq", !.name = kind, !.before = sch,
                                       !.err = res.err, !.equal = res.equal]
    /\ UNCHANGED <<classvars, smartvars,
                   vers_schemas, setstatevars, objvars, metavars,
                   sch, sch_cls, sch_arg, sch_err, sch_dict>>

\* sch != other
SchemaNe(kind) ==
    /\ pc = "sch_live"
    /\ LET res == Schema_ne(sch_cls, sch, Other(kind))
       IN  sch_op' = [NoSchemaOp EXCEPT !.op = "ne", !.name = kind, !.before = sch,
                                       !.err = res.err, !.equal = res.equal]
    /\ UNCHANGED <<classvars, smartvars,
                   vers_schemas, setstatevars, objvars, metavars,
                   sch, sch_cls, sch_arg, sch_err, sch_dict>>

\* sch.__getstate__(): RuntimeError on an uninitialized instance.
SchemaGetState ==
    /\ pc = "sch_live"
    /\ sch_op' = [NoSchemaOp EXCEPT
                    !.op = "getstate", !.before = sch,
                    !.err = IF sch.init THEN "" ELSE "RuntimeError",
                    !.ret = IF sch.init THEN Schema_getstate(sch_cls, sch)
                            ELSE NoState]
    /\ UNCHANGED <<classvars, smartvars,
                   vers_schemas, setstatevars, objvars, metavars,
                   sch, sch_cls, sch_arg, sch_err, sch_dict>>

\* sch.__setstate__(st) on the live instance: __vers_values__ is replaced
\* only after every key has been checked and validated.
SchemaReload(st) ==
    /\ pc = "sch_live"
    /\ LET res == Schema_setstate(sch_cls, st)
       IN  /\ sch' = IF res.err = "" THEN [init |-> TRUE, vals |-> res.vals]
                     ELSE sch
           /\ sch_op' = [NoSchemaOp EXCEPT !.op = "setstate", !.arg = st,
                                           !.before = sch, !.err = res.err]
    /\ UNCHANGED <<classvars, smartvars,
                   vers_schemas, setstatevars, objvars, metavars,
                   sch_cls, sch_arg, sch_err, sch_dict>>

\* cls(**kwargs) on a class without schemas: VObject.__new__ raises.
NewAbstract(kwargs) ==
    /\ pc = "idle"
    /\ Len(vers_schemas) = 0
    /\ src' = "new"
    /\ Raise("abstract")
    /\ UNCHANGED <<classvars, smartvars,
                   vers_schemas, obj, state, version, schema, schema_vers,
                   upgraders, ncalled, calls, orig, record, schvars, metavars>>

\* The call returns (or its exception reaches the caller): the locals and
\* the instance it worked on are dropped.
Return ==
    /\ pc \in {"done", "error", "sch_done", "sch_live", "sch_none", "answered"}
    /\ pc' = "idle"
    /\ obj' = EmptyObject(vers_schemas)
    /\ state' = NoState
    /\ version' = 0
    /\ schema' = 0
    /\ schema_vers' = 0
    /\ upgraders' = <<>>
    /\ ncalled' = 0
    /\ calls' = <<>>
    /\ err' = ""
    /\ src' = ""
    /\ record' = NoState
    /\ sch' = BlankValues
    /\ sch_cls' = AbstractSchema
    /\ sch_arg' = NoState
    /\ sch_err' = ""
    /\ sch_op' = NoSchemaOp
    /\ sch_dict' = EmptyMap
    /\ answer' = NoAnswer
    /\ UNCHANGED <<vers_schemas, orig, metavars, classvars, cache>>

\* ------------------------------------------------------ VObjectMeta.__new__
\* A member of the class namespace: a Schema subclass, or any other value.
SchemaMember(cls) == [kind |-> "schema", cls |-> cls]

OtherMember == [kind |-> "other", cls |-> AbstractSchema]

\* The members collected into versions: the concrete schemas.
ConcreteMembers(ns) ==
    { k \in DOMAIN ns : ns[k].kind = "schema" /\ ns[k].cls.version # 0 }

\* The versions dictionary of VObjectMeta.__new__: the concrete schema of
\* each version collected from the namespace.
concrete_versions(ns) ==
    [v \in { ns[k].cls.version : k \in ConcreteMembers(ns) } |->
        ns[CHOOSE k \in ConcreteMembers(ns) : ns[k].cls.version = v].cls]

\* Downgrader(downgrader, schema): the downgrade method and the schema class
\* it produces.  A downgrade method is the pair of its target version and
\* the version of the schema it belongs to.
Downgrader(down, cls) == [downgrader |-> down, schema |-> cls]

\* versions[vers] raises KeyError for a downgrade target that is not the
\* version of a collected schema.
MissingTargets(versions, schemas) ==
    /\ schemas # <<>>
    /\ \E vers \in schemas[Len(schemas)].downgraders : vers \notin DOMAIN versions

MetaDowngraders_every_schema(versions, schemas) ==
    LET declared == UNION { schemas[i].downgraders : i \in 1..Len(schemas) }
        owner(vers) == CHOOSE i \in 1..Len(schemas) :
                          /\ vers \in schemas[i].downgraders
                          /\ \A j \in 1..Len(schemas) :
                                vers \in schemas[j].downgraders => j <= i
    IN  [vers \in declared \cap DOMAIN versions |->
            Downgrader(<<vers, schemas[owner(vers)].version>>, versions[vers])]

\* "Set up downgraders": one Downgrader for each entry of the last schema's
\* __vers_downgraders__, none when there is no schema.
MetaDowngraders(versions, schemas) ==
    IF schemas = <<>> THEN EmptyMap
    ELSE LET last_schema == schemas[Len(schemas)]
         IN  [vers \in last_schema.downgraders |->
                 Downgrader(<<vers, last_schema.version>>, versions[vers])]

VObjectMeta_new_nogaps(ns) ==
    LET concrete == ConcreteMembers(ns)
        versions == { ns[k].cls.version : k \in concrete }
        n == Cardinality(versions)
        sorted == [i \in 1..n |->
                     LET v == CHOOSE v \in versions :
                                 Cardinality({w \in versions : w < v}) = i - 1
                     IN  ns[CHOOSE k \in concrete : ns[k].cls.version = v].cls]
    IN  IF \E k1, k2 \in concrete :
              k1 # k2 /\ ns[k1].cls.version = ns[k2].cls.version
        THEN [status |-> "TypeError", schemas |-> <<>>,
              version |-> SmartVersion(0, <<>>, ""), downgraders |-> EmptyMap]
        ELSE IF MissingTargets(concrete_versions(ns), sorted)
        THEN [status |-> "KeyError", schemas |-> <<>>,
              version |-> SmartVersion(0, <<>>, ""), downgraders |-> EmptyMap]
        ELSE [status |-> "ok", schemas |-> sorted,
              version |-> SmartVersion(Len(sorted), LastSchema(sorted), ""),
              downgraders |-> MetaDowngraders(concrete_versions(ns), sorted)]

\* VObjectMeta.__new__(mcs, name, bases, namespace): the class attributes
\* __vers_schemas__ and __version__, or the TypeError raised.
VObjectMeta_new(ns) ==
    LET concrete == ConcreteMembers(ns)
        versions == { ns[k].cls.version : k \in concrete }
        n == Cardinality(versions)
        sorted == [i \in 1..n |->
                     LET v == CHOOSE v \in versions :
                                 Cardinality({w \in versions : w < v}) = i - 1
                     IN  ns[CHOOSE k \in concrete : ns[k].cls.version = v].cls]
    IN  IF \E k1, k2 \in concrete :
              k1 # k2 /\ ns[k1].cls.version = ns[k2].cls.version
        THEN [status |-> "TypeError", schemas |-> <<>>,
              version |-> SmartVersion(0, <<>>, ""), downgraders |-> EmptyMap]
        ELSE IF versions # 1..n
        THEN [status |-> "TypeError", schemas |-> <<>>,
              version |-> SmartVersion(0, <<>>, ""), downgraders |-> EmptyMap]
        ELSE IF MissingTargets(concrete_versions(ns), sorted)
        THEN [status |-> "KeyError", schemas |-> <<>>,
              version |-> SmartVersion(0, <<>>, ""), downgraders |-> EmptyMap]
        ELSE [status |-> "ok", schemas |-> sorted,
              version |-> SmartVersion(Len(sorted), LastSchema(sorted), ""),
              downgraders |-> MetaDowngraders(concrete_versions(ns), sorted)]

\* A statement of the class body binds a name.
Declare(name, member) ==
    /\ vobject.status = "none"
    /\ namespace' = [k \in DOMAIN namespace \cup {name} |->
                       IF k = name THEN member ELSE namespace[k]]
    /\ UNCHANGED <<classvars, smartvars,
                   vers_schemas, setstatevars, objvars, schvars, vobject>>

\* The class statement ends: the metaclass is called on the namespace.
DefineVObject ==
    /\ vobject.status = "none"
    /\ vobject' = VObjectMeta_new(namespace)
    /\ UNCHANGED <<classvars, smartvars,
                   vers_schemas, setstatevars, objvars, schvars, namespace>>

\* -------------------------------------------------- the lineages explored
\* Attribute(): no default, identity validator and serializer.
PlainAttrs == [a \in {"attr"} |-> Attribute(Unset, "ident", "ident")]

SchemaClass(v, ups, attrs) ==
    [version |-> v, upgraders |-> ups, downgraders |-> {}, attrs |-> attrs]

UpgraderSets(v) ==
    { u \in SUBSET (1..(v - 1)) : Cardinality(u) <= MaxUpgraders }

\* Lineages of n schemas as VObject.__setstate__ may find them installed in
\* __vers_schemas__: the i-th schema has version i, and its upgraders come
\* from older versions.
RECURSIVE Lineages(_, _)
Lineages(n, attrs) ==
    IF n = 0 THEN {<<>>}
    ELSE { Append(l, SchemaClass(n, u, attrs)) :
              l \in Lineages(n - 1, attrs), u \in UpgraderSets(n) }

AnyUpgrader(cls) ==
    cls.version > 1 => cls.upgraders # {}

\* SchemaMeta.__new__ lines 171-175: a schema of version > 1 has an
\* upgrader from the previous version.
EnoughUpgraders(cls) ==
    cls.version > 1 => (cls.version - 1) \in cls.upgraders

\* ------------------------------------------------------- SchemaMeta.__new__
\* A class body: the declared __version__ (Unset when the body has none),
\* the __version__ of the base class (0 when the base is vobj.Schema), the
\* __vers_upgrader__ marks of its upgraders (0 for None, the mark a bare
\* @upgrader leaves), the __vers_downgrader__ marks of its downgraders and
\* its Attribute members.
ClassBody(base) ==
    [version |-> Unset, base |-> base, upgraders |-> {}, downgraders |-> {},
     attrs |-> EmptyMap]

\* No class has been constructed from the body.
NoSchema == [status |-> "none", cls |-> AbstractSchema]

upgrade_version_first(mark, vers) ==
    IF mark = 0 THEN 1 ELSE mark

\* upgrade_version = value.__vers_upgrader__, version - 1 when it is None.
upgrade_version(mark, vers) ==
    IF mark = 0 THEN vers - 1 ELSE mark

NewerOnly(old, vers) == old > vers

\* "Cannot upgrade from a newer version", "Cannot downgrade to a newer
\* version".
Newer(old, vers) == old >= vers

\* SchemaMeta.__new__(mcs, name, bases, namespace): the class, or the
\* TypeError raised.
SchemaMeta_new(ns) ==
    LET abstract == ns.version = Unset /\ ns.base = 0
        vers == IF ns.version # Unset THEN ns.version ELSE ns.base + 1
        ups == { upgrade_version(m, vers) : m \in ns.upgraders }
        cls == [version |-> IF abstract THEN 0 ELSE vers,
                upgraders |-> ups,
                downgraders |-> ns.downgraders,
                attrs |-> ns.attrs]
    IN  IF ~abstract /\ vers < 1
        THEN [status |-> "TypeError", cls |-> AbstractSchema]
        ELSE IF ns.upgraders # {} /\ (abstract \/ vers - 1 = 0)
        THEN [status |-> "TypeError", cls |-> AbstractSchema]
        ELSE IF \E u \in ups : Newer(u, vers)
        THEN [status |-> "TypeError", cls |-> AbstractSchema]
        ELSE IF ns.downgraders # {} /\ (abstract \/ vers - 1 = 0)
        THEN [status |-> "TypeError", cls |-> AbstractSchema]
        ELSE IF \E d \in ns.downgraders : Newer(d, vers)
        THEN [status |-> "TypeError", cls |-> AbstractSchema]
        ELSE IF ~EnoughUpgraders(cls)
        THEN [status |-> "TypeError", cls |-> AbstractSchema]
        ELSE [status |-> "ok", cls |-> cls]

\* __version__ = v in the class body.
DeclareVersion(v) ==
    /\ schema_new.status = "none"
    /\ body' = [body EXCEPT !.version = v]
    /\ UNCHANGED <<vers_schemas, setstatevars, objvars, schvars, metavars,
                   schema_new, smartvars>>

\* A method decorated with @upgrader (mark 0) or @upgrader(mark).
DeclareUpgrader(mark) ==
    /\ schema_new.status = "none"
    /\ body' = [body EXCEPT !.upgraders = @ \cup {mark}]
    /\ UNCHANGED <<vers_schemas, setstatevars, objvars, schvars, metavars,
                   schema_new, smartvars>>

\* A method decorated with @downgrader(mark).
DeclareDowngrader(mark) ==
    /\ schema_new.status = "none"
    /\ body' = [body EXCEPT !.downgraders = @ \cup {mark}]
    /\ UNCHANGED <<vers_schemas, setstatevars, objvars, schvars, metavars,
                   schema_new, smartvars>>

\* name = Attribute() in the class body.
DeclareAttribute(name) ==
    /\ schema_new.status = "none"
    /\ body' = [body EXCEPT !.attrs =
                   [k \in DOMAIN @ \cup {name} |->
                      Attribute(Unset, "ident", "ident")]]
    /\ UNCHANGED <<vers_schemas, setstatevars, objvars, schvars, metavars,
                   schema_new, smartvars>>

\* The class statement ends: the metaclass is called on the body.
DefineSchema ==
    /\ schema_new.status = "none"
    /\ schema_new' = SchemaMeta_new(body)
    /\ UNCHANGED <<vers_schemas, setstatevars, objvars, schvars, metavars,
                   body, smartvars>>

\* The state dictionaries handed to __setstate__.
States(n, attrs) ==
    { [vkind |-> k, version |-> v, attrs |-> attrs] :
        k \in {"absent", "str", "int"}, v \in 0..(n + 1) }

\* ------------------------------------------------ SmartVersion as a container
SmartVersion_len_downgraders(sv) ==
    IF sv.schema = <<>> THEN 0
    ELSE Cardinality(sv.schema[1].downgraders)

\* SmartVersion.__len__
SmartVersion_len(sv) ==
    IF sv.schema = <<>> THEN 0
    ELSE Cardinality(sv.schema[1].downgraders) + 1

SmartVersion_contains_downgraders(sv, key) ==
    IF sv.schema = <<>> THEN FALSE
    ELSE key \in sv.schema[1].downgraders

\* SmartVersion.__contains__
SmartVersion_contains(sv, key) ==
    IF sv.schema = <<>> THEN FALSE
    ELSE IF key = sv.schema[1].version THEN TRUE
    ELSE key \in sv.schema[1].downgraders

\* SmartVersion.available
SmartVersion_available(sv) ==
    IF sv.schema = <<>> THEN {}
    ELSE sv.schema[1].downgraders \cup {sv.schema[1].version}

\* master.__vers_cache__ and master.__vers_accessor__: the stand-in master
\* of the tests has both; a VObject defines neither, so the lookup ends in
\* Schema.__getattr__ with a name that is not a declared attribute.
MasterHasCache(master) == master = "mock"

\* The outcome of SmartVersion.__getitem__: the exception raised, the item
\* returned, whether the master's cache or accessor was read.
Raised(e, consulted) == [err |-> e, item |-> "", consulted |-> consulted]

Returned(item, consulted) == [err |-> "", item |-> item, consulted |-> consulted]

SmartVersion_getitem_schema_first(sv, key) ==
    IF sv.schema = <<>> THEN Raised("KeyError", FALSE)
    ELSE IF sv.master = "" THEN Raised("RuntimeError", FALSE)
    ELSE IF key = sv.schema[1].version THEN Returned(sv.master, FALSE)
    ELSE IF key \notin sv.schema[1].downgraders THEN Raised("KeyError", FALSE)
    ELSE IF ~MasterHasCache(sv.master) THEN Raised("AttributeError", TRUE)
    ELSE IF key \notin DOMAIN cache THEN Raised("KeyError", TRUE)
    ELSE Returned(cache[key], TRUE)

SmartVersion_getitem_cache_first(sv, key) ==
    IF sv.master = "" THEN Raised("RuntimeError", FALSE)
    ELSE IF sv.schema = <<>> THEN Raised("KeyError", FALSE)
    ELSE IF key = sv.schema[1].version THEN Returned(sv.master, FALSE)
    ELSE IF ~MasterHasCache(sv.master) THEN Raised("AttributeError", TRUE)
    ELSE IF key \notin DOMAIN cache THEN Raised("KeyError", TRUE)
    ELSE Returned(cache[key], TRUE)

\* SmartVersion.__getitem__ of vobj/__init__.py: nothing allocates a missing
\* cache entry.
SmartVersion_getitem(sv, key) ==
    IF sv.master = "" THEN Raised("RuntimeError", FALSE)
    ELSE IF sv.schema = <<>> THEN Raised("KeyError", FALSE)
    ELSE IF key = sv.schema[1].version THEN Returned(sv.master, FALSE)
    ELSE IF key \notin sv.schema[1].downgraders THEN Raised("KeyError", FALSE)
    ELSE IF ~MasterHasCache(sv.master) THEN Raised("AttributeError", TRUE)
    ELSE IF key \notin DOMAIN cache THEN Raised("KeyError", TRUE)
    ELSE Returned(cache[key], TRUE)

\* SmartVersion.__getitem__ of vobj/version.py: the last step calls
\* master.__vers_accessor__(key).
version_SmartVersion_getitem(sv, key) ==
    IF sv.master = "" THEN Raised("RuntimeError", FALSE)
    ELSE IF sv.schema = <<>> THEN Raised("KeyError", FALSE)
    ELSE IF key = sv.schema[1].version THEN Returned(sv.master, FALSE)
    ELSE IF key \notin sv.schema[1].downgraders THEN Raised("KeyError", FALSE)
    ELSE IF ~MasterHasCache(sv.master) THEN Raised("AttributeError", TRUE)
    ELSE Returned("access", TRUE)

\* len(sv)
Length(sv) ==
    /\ pc = "idle"
    /\ answer' = [NoAnswer EXCEPT !.op = "len", !.sv = sv,
                                  !.len = SmartVersion_len(sv)]
    /\ pc' = "answered"
    /\ UNCHANGED <<vers_schemas, obj, state, version, schema, schema_vers,
                   upgraders, ncalled, calls, err, objvars, schvars, metavars,
                   classvars, cache>>

\* key in sv
Contains(sv, key) ==
    /\ pc = "idle"
    /\ answer' = [NoAnswer EXCEPT !.op = "contains", !.sv = sv, !.key = key,
                                  !.found = SmartVersion_contains(sv, key)]
    /\ pc' = "answered"
    /\ UNCHANGED <<vers_schemas, obj, state, version, schema, schema_vers,
                   upgraders, ncalled, calls, err, objvars, schvars, metavars,
                   classvars, cache>>

\* sv.available()
Available(sv) ==
    /\ pc = "idle"
    /\ answer' = [NoAnswer EXCEPT !.op = "available", !.sv = sv,
                                  !.avail = SmartVersion_available(sv)]
    /\ pc' = "answered"
    /\ UNCHANGED <<vers_schemas, obj, state, version, schema, schema_vers,
                   upgraders, ncalled, calls, err, objvars, schvars, metavars,
                   classvars, cache>>

\* sv[key] with the SmartVersion of vobj/__init__.py
GetItem(sv, key) ==
    /\ pc = "idle"
    /\ LET res == SmartVersion_getitem(sv, key)
       IN  answer' = [NoAnswer EXCEPT !.op = "getitem", !.sv = sv, !.key = key,
                                      !.err = res.err, !.item = res.item,
                                      !.consulted = res.consulted]
    /\ pc' = "answered"
    /\ UNCHANGED <<vers_schemas, obj, state, version, schema, schema_vers,
                   upgraders, ncalled, calls, err, objvars, schvars, metavars,
                   classvars, cache>>

\* sv[key] with the SmartVersion of vobj/version.py
VersionGetItem(sv, key) ==
    /\ pc = "idle"
    /\ LET res == version_SmartVersion_getitem(sv, key)
       IN  answer' = [NoAnswer EXCEPT !.op = "version_getitem", !.sv = sv,
                                      !.key = key,
                                      !.err = res.err, !.item = res.item,
                                      !.consulted = res.consulted]
    /\ pc' = "answered"
    /\ UNCHANGED <<vers_schemas, obj, state, version, schema, schema_vers,
                   upgraders, ncalled, calls, err, objvars, schvars, metavars,
                   classvars, cache>>

Init ==
    /\ \E n \in 0..MaxVersions : vers_schemas \in Lineages(n, PlainAttrs)
    /\ state \in { s \in States(Len(vers_schemas), [a \in {"attr"} |-> 0]) :
                     s.vkind # "int" => s.version = 0 }
    /\ obj = EmptyObject(vers_schemas)
    /\ version = 0
    /\ schema = 0
    /\ schema_vers = 0
    /\ upgraders = <<>>
    /\ ncalled = 0
    /\ calls = <<>>
    /\ pc = "start"
    /\ err = ""
    /\ orig = Instance("orig", vers_schemas)
    /\ src = "dict"
    /\ record = NoState
    /\ sch = BlankValues
    /\ sch_cls = AbstractSchema
    /\ sch_arg = NoState
    /\ sch_err = ""
    /\ sch_op = NoSchemaOp
    /\ sch_dict = EmptyMap
    /\ namespace = EmptyMap
    /\ vobject = NoVObject
    /\ body = ClassBody(0)
    /\ schema_new = NoSchema
    /\ cache = EmptyMap
    /\ answer = NoAnswer

Next == SetState

Spec == Init /\ [][Next]_vars

\* The sequential code runs to completion: every enabled step is taken.
FairSpec == Spec /\ WF_vars(Next)

\* ------------------------------------------- the object specification
\* The attribute declarations explored: "a" with any default, validator and
\* serializer, and optionally "b", a plain attribute with a default.
AttrDecls ==
    LET as == { Attribute(d, v, g) :
                  d \in {Unset, 1}, v \in ValidatorKinds, g \in SerializerKinds }
    IN  { [k \in {"a"} |-> x] : x \in as }
        \cup { [k \in {"a", "b"} |->
                 IF k = "a" THEN x ELSE Attribute(0, "ident", "ident")] : x \in as }

InitObject ==
    /\ \E n \in 0..MaxObjVersions :
          \E attrs \in AttrDecls : vers_schemas \in Lineages(n, attrs)
    /\ SetStateIdle
    /\ pc = "idle"
    /\ orig = Instance("orig", vers_schemas)
    /\ src = ""
    /\ record = NoState
    /\ sch = BlankValues
    /\ sch_cls = AbstractSchema
    /\ sch_arg = NoState
    /\ sch_err = ""
    /\ sch_op = NoSchemaOp
    /\ sch_dict = EmptyMap
    /\ namespace = EmptyMap
    /\ vobject = NoVObject
    /\ body = ClassBody(0)
    /\ schema_new = NoSchema
    /\ cache = EmptyMap
    /\ answer = NoAnswer

\* The state dictionaries of the object specification.
ObjectStates ==
    { [vkind |-> "int", version |-> v, attrs |-> m] :
        v \in 0..(Len(vers_schemas) + 1), m \in Mappings }
    \cup { [vkind |-> k, version |-> 0, attrs |-> m] :
             k \in {"absent", "str"}, m \in Mappings }

NextObject ==
    \/ \E kwargs \in Mappings : New(kwargs)
    \/ \E name \in Names, value \in Values : SetAttr(name, value)
    \/ \E st \in ObjectStates : FromDict(st)
    \/ FromDictToDict
    \/ \E cls \in {vers_schemas[i] : i \in {Len(vers_schemas)} \ {0}}
                   \cup {AbstractSchema} :
          \E st \in ObjectStates : SchemaSetState(cls, st)
    \/ \E cls \in {vers_schemas[i] : i \in {Len(vers_schemas)} \ {0}}
                   \cup {AbstractSchema} :
          \E given \in BOOLEAN, values \in Mappings :
             (given \/ values = EmptyMap) /\ SchemaNew(cls, given, values)
    \/ \E kwargs \in Mappings : NewAbstract(kwargs)
    \/ Return
    \/ SetState

SpecObject == InitObject /\ [][NextObject]_vars

\* --------------------------------------- the class definition specification
\* The schema classes a class body may hold: abstract (version 0) or
\* concrete, as SchemaMeta accepts them.
\* The downgrade targets SchemaMeta accepts on a schema of version v.
DowngraderSets(v) ==
    { d \in SUBSET (1..MaxSchemaVersion) : \A t \in d : ~Newer(t, v) }

MemberClasses ==
    { c \in { [SchemaClass(v[1], u, PlainAttrs) EXCEPT !.downgraders = v[2]] :
                v \in (0..MaxSchemaVersion) \X SUBSET (1..MaxSchemaVersion),
                u \in SUBSET (1..MaxSchemaVersion) } :
        /\ c.upgraders \in UpgraderSets(c.version)
        /\ EnoughUpgraders(c)
        /\ c.downgraders \in DowngraderSets(c.version) }

MemberNames == { i \in 1..MaxMembers : TRUE }

InitMeta ==
    /\ vers_schemas = <<>>
    /\ SetStateIdle
    /\ pc = "idle"
    /\ orig = Instance("orig", vers_schemas)
    /\ src = ""
    /\ record = NoState
    /\ sch = BlankValues
    /\ sch_cls = AbstractSchema
    /\ sch_arg = NoState
    /\ sch_err = ""
    /\ sch_op = NoSchemaOp
    /\ sch_dict = EmptyMap
    /\ namespace = EmptyMap
    /\ vobject = NoVObject
    /\ body = ClassBody(0)
    /\ schema_new = NoSchema
    /\ cache = EmptyMap
    /\ answer = NoAnswer

NextMeta ==
    \/ \E name \in MemberNames :
          \E member \in {SchemaMember(c) : c \in MemberClasses} \cup {OtherMember} :
             Declare(name, member)
    \/ DefineVObject

SpecMeta == InitMeta /\ [][NextMeta]_vars

\* ------------------------------------------------------ Downgrader.__call__
\* What the modelled downgrade methods do with the mapping they receive:
\* "keep" marks every value with the target version, "drop" also leaves
\* out "b", "add" also adds "b", "zero" sets every value to 0.
DowngradeKinds == {"keep", "drop", "add", "zero"}

\* A downgrade method of a schema, down = <<target, owner version, kind>>:
\* takes the attribute mapping of the current version and returns the
\* mapping of the target version.
DowngraderMethod(down, attrs) ==
    LET marked == [k \in DOMAIN attrs |-> attrs[k] * 10 + down[1]]
    IN  CASE down[3] = "keep" -> marked
          [] down[3] = "drop" -> [k \in DOMAIN attrs \ {"b"} |-> marked[k]]
          [] down[3] = "add" ->
                [k \in DOMAIN attrs \cup {"b"} |->
                   IF k \in DOMAIN attrs THEN marked[k] ELSE down[1]]
          [] down[3] = "zero" -> [k \in DOMAIN attrs |-> 0]

Downgrader_call_defaults(self, st) ==
    LET received == [st EXCEPT !.vkind = "absent", !.version = 0]
        tagged == [vkind |-> "int", version |-> self.schema.version,
                   attrs |-> DowngraderMethod(self.downgrader, received.attrs)]
        values == Schema_new(self.schema, FALSE, EmptyMap)
        res == Schema_setstate_defaults(self.schema, tagged)
    IN  IF st.vkind = "absent"
        THEN [err |-> "KeyError", received |-> NoState, state |-> NoState,
              values |-> BlankValues]
        ELSE IF values.err # ""
        THEN [err |-> values.err, received |-> received, state |-> tagged,
              values |-> BlankValues]
        ELSE [err |-> res.err, received |-> received, state |-> tagged,
              values |-> IF res.err = "" THEN [init |-> TRUE, vals |-> res.vals]
                         ELSE BlankValues]

\* Downgrader.__call__(state): the mapping the downgrade method received,
\* the state handed to __setstate__ of the new instance of self.schema, and
\* the instance returned, or the exception raised.
Downgrader_call(self, st) ==
    LET received == [st EXCEPT !.vkind = "absent", !.version = 0]
        tagged == [vkind |-> "int", version |-> self.schema.version,
                   attrs |-> DowngraderMethod(self.downgrader, received.attrs)]
        values == Schema_new(self.schema, FALSE, EmptyMap)
        res == Schema_setstate(self.schema, tagged)
    IN  IF st.vkind = "absent"
        THEN [err |-> "KeyError", received |-> NoState, state |-> NoState,
              values |-> BlankValues]
        ELSE IF values.err # ""
        THEN [err |-> values.err, received |-> received, state |-> tagged,
              values |-> BlankValues]
        ELSE [err |-> res.err, received |-> received, state |-> tagged,
              values |-> IF res.err = "" THEN [init |-> TRUE, vals |-> res.vals]
                         ELSE BlankValues]

\* sch = dg(st) for a Downgrader dg: the returned instance lives on when no
\* exception is raised.
Downgrade(dg, st) ==
    /\ pc = "idle"
    /\ LET res == Downgrader_call(dg, st)
       IN  /\ sch' = res.values
           /\ sch_op' = [NoSchemaOp EXCEPT !.op = "downgrade", !.arg = st,
                                           !.received = res.received,
                                           !.ret = res.state,
                                           !.down = dg.downgrader,
                                           !.err = res.err]
           /\ pc' = IF res.err = "" THEN "sch_live" ELSE "sch_none"
    /\ sch_cls' = dg.schema
    /\ sch_dict' = EmptyMap
    /\ UNCHANGED <<classvars, smartvars,
                   vers_schemas, obj, state, version, schema, schema_vers,
                   upgraders, ncalled, calls, err, objvars, metavars,
                   sch_arg, sch_err>>

\* ------------------------------------ the schema instance specification
\* Attribute names used on instances: the declarable ones and one that no
\* schema declares.
AttrNames == Names \cup {"x"}

\* The state dictionaries handed to __setstate__ of an instance.
SchemaStates ==
    { [vkind |-> "int", version |-> v, attrs |-> m] :
        v \in 1..2, m \in Mappings }
    \cup { [vkind |-> "absent", version |-> 0, attrs |-> m] : m \in Mappings }

InitSchema ==
    /\ \E attrs \in AttrDecls : vers_schemas \in Lineages(1, attrs)
    /\ SetStateIdle
    /\ pc = "idle"
    /\ orig = Instance("orig", vers_schemas)
    /\ src = ""
    /\ record = NoState
    /\ sch = BlankValues
    /\ sch_cls = AbstractSchema
    /\ sch_arg = NoState
    /\ sch_err = ""
    /\ sch_op = NoSchemaOp
    /\ sch_dict = EmptyMap
    /\ namespace = EmptyMap
    /\ vobject = NoVObject
    /\ body = ClassBody(0)
    /\ schema_new = NoSchema
    /\ cache = EmptyMap
    /\ answer = NoAnswer

NextSchema ==
    \/ \E given \in BOOLEAN, values \in Mappings :
          (given \/ values = EmptyMap) /\ SchemaNew(vers_schemas[1], given, values)
    \/ \E name \in AttrNames : SchemaGetAttr(name)
    \/ \E name \in AttrNames, value \in Values : SchemaSetAttr(name, value)
    \/ \E name \in AttrNames : SchemaDelAttr(name)
    \/ \E kind \in OtherKinds : SchemaEq(kind)
    \/ \E kind \in OtherKinds : SchemaNe(kind)
    \/ SchemaGetState
    \/ \E st \in SchemaStates : SchemaReload(st)
    \/ Return

SpecSchema == InitSchema /\ [][NextSchema]_vars

\* ------------------------------------------ the downgrade specification
\* Attribute(): plain attributes of the given names.
PlainOver(names) == [k \in names |-> Attribute(Unset, "ident", "ident")]

\* Lineages of two schemas whose latest schema declares a downgrader to
\* version 1.
DowngradeLineages ==
    { <<SchemaClass(1, {}, old),
        [SchemaClass(2, {1}, PlainOver(latest)) EXCEPT !.downgraders = {1}]>> :
        old \in AttrDecls, latest \in {{"a"}, {"a", "b"}} }

\* The Downgraders installed for the lineage, with each behaviour of the
\* downgrade method.
InstalledDowngraders ==
    LET versions == [i \in 1..Len(vers_schemas) |-> vers_schemas[i]]
        installed == MetaDowngraders(versions, vers_schemas)
    IN  { Downgrader(Append(installed[vers].downgrader, kind),
                     installed[vers].schema) :
            vers \in DOMAIN installed, kind \in DowngradeKinds }

\* The serialized states of the latest schema.
CurrentStates ==
    { [vkind |-> "int", version |-> Len(vers_schemas), attrs |-> m] :
        m \in [DOMAIN vers_schemas[Len(vers_schemas)].attrs -> Values] }

InitDowngrade ==
    /\ vers_schemas \in DowngradeLineages
    /\ SetStateIdle
    /\ pc = "idle"
    /\ orig = Instance("orig", vers_schemas)
    /\ src = ""
    /\ record = NoState
    /\ sch = BlankValues
    /\ sch_cls = AbstractSchema
    /\ sch_arg = NoState
    /\ sch_err = ""
    /\ sch_op = NoSchemaOp
    /\ sch_dict = EmptyMap
    /\ namespace = EmptyMap
    /\ vobject = NoVObject
    /\ body = ClassBody(0)
    /\ schema_new = NoSchema
    /\ cache = EmptyMap
    /\ answer = NoAnswer

NextDowngrade ==
    \/ \E dg \in InstalledDowngraders : \E st \in CurrentStates : Downgrade(dg, st)
    \/ Return

SpecDowngrade == InitDowngrade /\ [][NextDowngrade]_vars

\* ------------------------------------ the schema definition specification
InitSchemaMeta ==
    /\ vers_schemas = <<>>
    /\ SetStateIdle
    /\ pc = "idle"
    /\ orig = Instance("orig", vers_schemas)
    /\ src = ""
    /\ record = NoState
    /\ sch = BlankValues
    /\ sch_cls = AbstractSchema
    /\ sch_arg = NoState
    /\ sch_err = ""
    /\ sch_op = NoSchemaOp
    /\ sch_dict = EmptyMap
    /\ namespace = EmptyMap
    /\ vobject = NoVObject
    /\ \E base \in 0..(MaxSchemaVersion - 1) : body = ClassBody(base)
    /\ schema_new = NoSchema
    /\ cache = EmptyMap
    /\ answer = NoAnswer

NextSchemaMeta ==
    \/ \E v \in 0..MaxSchemaVersion : DeclareVersion(v)
    \/ \E mark \in 0..MaxSchemaVersion : DeclareUpgrader(mark)
    \/ \E mark \in 1..MaxSchemaVersion : DeclareDowngrader(mark)
    \/ DeclareAttribute("attr")
    \/ DefineSchema

SpecSchemaMeta == InitSchemaMeta /\ [][NextSchemaMeta]_vars

\* ------------------------------------------------ SmartVersion as a number
\* The value of an expression: an int, a bool, a float (val / aux in lowest
\* terms), the pair of divmod, or the exception raised.
IntValue(n) == [err |-> "", kind |-> "int", val |-> n, aux |-> 0]

BoolValue(b) == [err |-> "", kind |-> "bool", val |-> IF b THEN 1 ELSE 0, aux |-> 0]

PairValue(q, r) == [err |-> "", kind |-> "pair", val |-> q, aux |-> r]

ErrorValue(e) == [err |-> e, kind |-> "", val |-> 0, aux |-> 0]

Abs(x) == IF x < 0 THEN -x ELSE x

RECURSIVE Gcd(_, _)
Gcd(x, y) == IF y = 0 THEN x ELSE Gcd(y, x % y)

FloatValue(n, d) ==
    LET g == Gcd(Abs(n), Abs(d))
        sign == IF d < 0 THEN -1 ELSE 1
    IN  [err |-> "", kind |-> "float",
         val |-> sign * (Abs(n) \div g) * (IF n < 0 THEN -1 ELSE 1),
         aux |-> Abs(d) \div g]

\* x // y on ints, y # 0: rounds towards minus infinity.
FloorDiv(x, y) == IF y > 0 THEN x \div y ELSE (-x) \div (-y)

\* x % y on ints, y # 0: takes the sign of y.
FloorMod(x, y) == x - y * FloorDiv(x, y)

RECURSIVE Power(_, _)
Power(x, n) == IF n = 0 THEN 1 ELSE x * Power(x, n - 1)

\* Bitwise operators on ints of unlimited width in two's complement.
RECURSIVE BitAnd(_, _)
BitAnd(x, y) ==
    IF x = 0 \/ y = 0 THEN 0
    ELSE IF x = -1 THEN y
    ELSE IF y = -1 THEN x
    ELSE 2 * BitAnd(x \div 2, y \div 2) + (x % 2) * (y % 2)

Invert(x) == -x - 1

BitOr(x, y) == Invert(BitAnd(Invert(x), Invert(y)))

BitXor(x, y) == BitAnd(BitOr(x, y), Invert(BitAnd(x, y)))

BinaryOperators ==
    {"add", "sub", "mul", "div", "floordiv", "truediv", "mod", "divmod",
     "pow", "lshift", "rshift", "and", "xor", "or"}

Comparisons == {"lt", "le", "eq", "ne", "gt", "ge"}

UnaryOperators == {"neg", "pos", "abs", "invert", "hash", "index", "int"}

\* x OP y on two ints, as the bodies of the SmartVersion methods evaluate
\* it; the module has "from __future__ import division".
IntBinary(op, x, y) ==
    CASE op = "add" -> IntValue(x + y)
      [] op = "sub" -> IntValue(x - y)
      [] op = "mul" -> IntValue(x * y)
      [] op \in {"div", "floordiv"} ->
            IF y = 0 THEN ErrorValue("ZeroDivisionError")
            ELSE IntValue(FloorDiv(x, y))
      [] op = "truediv" ->
            IF y = 0 THEN ErrorValue("ZeroDivisionError")
            ELSE FloatValue(x, y)
      [] op = "mod" ->
            IF y = 0 THEN ErrorValue("ZeroDivisionError")
            ELSE IntValue(FloorMod(x, y))
      [] op = "divmod" ->
            IF y = 0 THEN ErrorValue("ZeroDivisionError")
            ELSE PairValue(FloorDiv(x, y), FloorMod(x, y))
      [] op = "pow" ->
            IF y >= 0 THEN IntValue(Power(x, y))
            ELSE IF x = 0 THEN ErrorValue("ZeroDivisionError")
            ELSE FloatValue(1, Power(x, -y))
      [] op = "lshift" ->
            IF y < 0 THEN ErrorValue("ValueError")
            ELSE IntValue(x * Power(2, y))
      [] op = "rshift" ->
            IF y < 0 THEN ErrorValue("ValueError")
            ELSE IntValue(x \div Power(2, y))
      [] op = "and" -> IntValue(BitAnd(x, y))
      [] op = "xor" -> IntValue(BitXor(x, y))
      [] op = "or" -> IntValue(BitOr(x, y))

IntCompare(op, x, y) ==
    CASE op = "lt" -> BoolValue(x < y)
      [] op = "le" -> BoolValue(x <= y)
      [] op = "eq" -> BoolValue(x = y)
      [] op = "ne" -> BoolValue(x # y)
      [] op = "gt" -> BoolValue(x > y)
      [] op = "ge" -> BoolValue(x >= y)

\* hash(x) of an int: the int itself, except that -1 is reserved.
IntHash(x) == IF x = -1 THEN -2 ELSE x

IntUnary(op, x) ==
    CASE op = "neg" -> IntValue(-x)
      [] op = "pos" -> IntValue(x)
      [] op = "abs" -> IntValue(Abs(x))
      [] op = "invert" -> IntValue(Invert(x))
      [] op = "hash" -> IntValue(IntHash(x))
      [] op \in {"index", "int"} -> IntValue(x)

\* An operand: a plain int, or a SmartVersion without schema and master.
IntOperand(n) == [smart |-> FALSE, val |-> n, sv |-> SmartVersion(0, <<>>, "")]

SmartOperand(n) == [smart |-> TRUE, val |-> 0, sv |-> SmartVersion(n, <<>>, "")]

\* "if isinstance(other, SmartVersion): ... other._version", else other.
Unwrap(other) == IF other.smart THEN other.sv.version ELSE other.val

\* __lt__, __le__, __eq__, __ne__, __gt__, __ge__
SmartVersion_compare(op, self, other) ==
    IntCompare(op, self.version, Unwrap(other))

\* __add__ ... __or__
SmartVersion_binary(op, self, other) ==
    IntBinary(op, self.version, Unwrap(other))

SmartVersion_reflected_swapped(op, self, other) ==
    IntBinary(op, self.version, other)

\* __radd__ ... __ror__: other OP self._version
SmartVersion_reflected(op, self, other) ==
    IntBinary(op, other, self.version)

\* __neg__, __pos__, __abs__, __invert__, __hash__, __index__, __int__
SmartVersion_unary(op, self) == IntUnary(op, self.version)

\* The comparison the interpreter tries on the right operand when the left
\* one is an int.
Mirrored(op) ==
    CASE op = "lt" -> "gt"
      [] op = "le" -> "ge"
      [] op = "gt" -> "lt"
      [] op = "ge" -> "le"
      [] op \in {"eq", "ne"} -> op

\* sv OP other, with sv on the left.
ApplyLeft(op, sv, other) ==
    /\ pc = "idle"
    /\ answer' = [NoAnswer EXCEPT
                    !.op = op, !.sv = sv, !.operand = other, !.side = "left",
                    !.value = IF op \in Comparisons
                              THEN SmartVersion_compare(op, sv, other)
                              ELSE SmartVersion_binary(op, sv, other)]
    /\ pc' = "answered"
    /\ UNCHANGED <<vers_schemas, obj, state, version, schema, schema_vers,
                   upgraders, ncalled, calls, err, objvars, schvars, metavars,
                   classvars, cache>>

\* n OP sv, with a plain int on the left: the int does not know
\* SmartVersion, so the reflected method of sv is called.
ApplyRight(op, n, sv) ==
    /\ pc = "idle"
    /\ answer' = [NoAnswer EXCEPT
                    !.op = op, !.sv = sv, !.operand = IntOperand(n),
                    !.side = "right",
                    !.value = IF op \in Comparisons
                              THEN SmartVersion_compare(Mirrored(op), sv,
                                                        IntOperand(n))
                              ELSE SmartVersion_reflected(op, sv, n)]
    /\ pc' = "answered"
    /\ UNCHANGED <<vers_schemas, obj, state, version, schema, schema_vers,
                   upgraders, ncalled, calls, err, objvars, schvars, metavars,
                   classvars, cache>>

\* OP sv
ApplyUnary(op, sv) ==
    /\ pc = "idle"
    /\ answer' = [NoAnswer EXCEPT
                    !.op = op, !.sv = sv, !.side = "unary",
                    !.value = SmartVersion_unary(op, sv)]
    /\ pc' = "answered"
    /\ UNCHANGED <<vers_schemas, obj, state, version, schema, schema_vers,
                   upgraders, ncalled, calls, err, objvars, schvars, metavars,
                   classvars, cache>>

SmartVersion_nonzero_as_int(self) == BoolValue(self.version # 0)

\* SmartVersion.__nonzero__: "return True".
SmartVersion_nonzero(self) == BoolValue(TRUE)

\* bool(sv)
ApplyBool(sv) ==
    /\ pc = "idle"
    /\ answer' = [NoAnswer EXCEPT
                    !.op = "nonzero", !.sv = sv, !.side = "truth",
                    !.value = SmartVersion_nonzero(sv)]
    /\ pc' = "answered"
    /\ UNCHANGED <<vers_schemas, obj, state, version, schema, schema_vers,
                   upgraders, ncalled, calls, err, objvars, schvars, metavars,
                   classvars, cache>>

\* ---------------------------------------- the SmartVersion specification
\* One attribute with a default.
DefaultAttrs == [k \in {"a"} |-> Attribute(0, "ident", "ident")]

\* Lineages as SchemaMeta and VObjectMeta accept them: every schema after
\* the first has the upgrader from the previous version, and the latest
\* one has downgraders to some of the older versions.
VersionLineages(n) ==
    { [i \in 1..n |->
         [version |-> i,
          upgraders |-> {i - 1} \ {0},
          downgraders |-> IF i = n THEN d ELSE {},
          attrs |-> DefaultAttrs]] :
        d \in { t \in SUBSET (1..n) : \A vers \in t : ~Newer(vers, n) } }

\* The SmartVersion values at hand: the class attribute, the one of orig,
\* and the ones the tests construct, with or without a schema and a
\* stand-in master.
SmartVersions ==
    {ClassVersion(vers_schemas), orig.version}
    \cup { SmartVersion(1, s, m) :
             s \in {<<>>} \cup { <<vers_schemas[i]>> : i \in 1..Len(vers_schemas) },
             m \in {"", "mock"} }

Keys == 0..(MaxSmartVersions + 1)

InitVersion ==
    /\ \E n \in 0..MaxSmartVersions : vers_schemas \in VersionLineages(n)
    /\ SetStateIdle
    /\ pc = "idle"
    /\ orig = Instance("orig", vers_schemas)
    /\ src = ""
    /\ record = NoState
    /\ sch = BlankValues
    /\ sch_cls = AbstractSchema
    /\ sch_arg = NoState
    /\ sch_err = ""
    /\ sch_op = NoSchemaOp
    /\ sch_dict = EmptyMap
    /\ namespace = EmptyMap
    /\ vobject = NoVObject
    /\ body = ClassBody(0)
    /\ schema_new = NoSchema
    /\ \E D \in SUBSET (1..MaxCached) : cache = [k \in D |-> "slave"]
    /\ answer = NoAnswer

NextVersion ==
    \/ \E kwargs \in Mappings : New(kwargs)
    \/ \E sv \in SmartVersions : Length(sv)
    \/ \E sv \in SmartVersions, key \in Keys : Contains(sv, key)
    \/ \E sv \in SmartVersions : Available(sv)
    \/ \E sv \in SmartVersions, key \in Keys : GetItem(sv, key)
    \/ \E sv \in SmartVersions, key \in Keys : VersionGetItem(sv, key)
    \/ Return

SpecVersion == InitVersion /\ [][NextVersion]_vars

\* ----------------------------------------------- the operator specification
\* The ints the operators are applied to.
Operands == (0 - MaxOperand)..MaxOperand

InitOperators ==
    /\ vers_schemas = <<>>
    /\ SetStateIdle
    /\ pc = "idle"
    /\ orig = Instance("orig", vers_schemas)
    /\ src = ""
    /\ record = NoState
    /\ sch = BlankValues
    /\ sch_cls = AbstractSchema
    /\ sch_arg = NoState
    /\ sch_err = ""
    /\ sch_op = NoSchemaOp
    /\ sch_dict = EmptyMap
    /\ namespace = EmptyMap
    /\ vobject = NoVObject
    /\ body = ClassBody(0)
    /\ schema_new = NoSchema
    /\ cache = EmptyMap
    /\ answer = NoAnswer

NextOperators ==
    \/ \E op \in BinaryOperators \cup Comparisons, a, b \in Operands :
          \E other \in {IntOperand(b), SmartOperand(b)} :
             ApplyLeft(op, SmartVersion(a, <<>>, ""), other)
    \/ \E op \in BinaryOperators \cup Comparisons, a, b \in Operands :
          ApplyRight(op, b, SmartVersion(a, <<>>, ""))
    \/ \E op \in UnaryOperators, a \in Operands :
          ApplyUnary(op, SmartVersion(a, <<>>, ""))
    \/ \E a \in Operands : ApplyBool(SmartVersion(a, <<>>, ""))
    \/ Return

SpecOperators == InitOperators /\ [][NextOperators]_vars

\* ------------------------------------------------------------ properties
\* Every schema of the lineage passed the upgrader check of SchemaMeta.
LineageHasEnoughUpgraders ==
    \A i \in 1..Len(vers_schemas) : EnoughUpgraders(vers_schemas[i])

\* C1: for a lineage of N >= 1 schemas in which every schema of version
\* greater than 1 has an upgrader from the previous version, loading a state
\* whose version is an integer in 1..N comes to an end without a missing
\* upgrader error, the target schema's __setstate__ is reached, and by then
\* the version entry of the state and the object's __version__ are both N.
C1_UpgradeConverges ==
    (/\ pc = "start"
     /\ Len(vers_schemas) >= 1
     /\ LineageHasEnoughUpgraders
     /\ state.vkind = "int"
     /\ 1 <= state.version /\ state.version <= Len(vers_schemas))
    ~> (/\ pc \in {"done", "error"}
        /\ err # "missing upgrader"
        /\ calls # <<>>
        /\ calls[Len(calls)].op = "setstate"
        /\ state.vkind = "int"
        /\ state.version = Len(vers_schemas)
        /\ obj.version.version = Len(vers_schemas))

C1_Witness ==
    /\ pc = "done"
    /\ LineageHasEnoughUpgraders
    /\ Len(upgraders) >= 2
    /\ state.version = Len(vers_schemas)
    /\ obj.version.version = Len(vers_schemas)

\* C2: every step of the search adds the upgrader of the current schema
\* whose source version is the smallest one in [version, schema_vers) that
\* the schema declares, owned by the current schema, and goes on from the
\* schema of that source version.
C2_LongestHopSelected ==
    [][ (pc = "resolve" /\ upgraders' # upgraders) =>
          LET cls == vers_schemas[schema]
              hop == upgraders'[Len(upgraders')]
          IN  /\ upgraders' = Append(upgraders, hop)
              /\ hop[2] = cls.version
              /\ hop[1] \in cls.upgraders
              /\ version <= hop[1] /\ hop[1] < schema_vers
              /\ \A t \in cls.upgraders :
                    (version <= t /\ t < schema_vers) => hop[1] <= t
              /\ schema' = hop[1]
              /\ schema_vers' = hop[1]
              /\ vers_schemas[schema'].version = hop[1] ]_vars

\* The lineage of test_setstate_upgrade, loaded from version 2.
C2_Witness ==
    /\ Len(vers_schemas) = 5
    /\ vers_schemas[2].upgraders = {1}
    /\ vers_schemas[3].upgraders = {2}
    /\ vers_schemas[4].upgraders = {2, 3}
    /\ vers_schemas[5].upgraders = {4}
    /\ pc = "done"
    /\ version = 2
    /\ upgraders = << <<4, 5>>, <<2, 4>> >>
    /\ Len(calls) = 3
    /\ calls[1].upgrader = <<2, 4>>
    /\ calls[2].upgrader = <<4, 5>>

\* C3: the i-th upgrader called is the i-th from the end of the pipeline,
\* the first one is called with the stored state and each next one with
\* what the previous one returned, and the target schema's __setstate__ is
\* called once, after all of them, with what the last one returned.
C3_ReverseOrder ==
    LET n == Len(upgraders)
        ups == { i \in 1..Len(calls) : calls[i].op = "upgrader" }
        sets == { i \in 1..Len(calls) : calls[i].op = "setstate" }
    IN  /\ \A i \in ups :
              /\ i <= n
              /\ calls[i].upgrader = upgraders[n - i + 1]
              /\ calls[i].arg.version = calls[i].upgrader[1]
              /\ i = 1 => calls[i].arg.version = version
              /\ i > 1 => /\ calls[i - 1].op = "upgrader"
                          /\ calls[i].arg = calls[i - 1].ret
        /\ \A i \in sets :
              /\ i = n + 1
              /\ i = Len(calls)
              /\ i > 1 => calls[i].arg = calls[i - 1].ret
        /\ pc = "done" => Len(calls) = n + 1 /\ sets = {n + 1}

C3_Witness ==
    /\ pc = "done"
    /\ Len(upgraders) >= 3
    /\ calls[Len(calls)].op = "setstate"

\* C4 as stated: the chain selected for a stored version is a shortest
\* one: no sequence of declared upgraders leading from the stored version to
\* the latest version has fewer steps.
C4_ShortestChain ==
    LET RECURSIVE Dist(_, _)
        \* fewest declared upgraders leading from version v to version s
        \* (MaxVersions + 1 when there is no such sequence)
        Dist(v, s) ==
            IF v = s THEN 0
            ELSE LET hops == { t \in vers_schemas[s].upgraders : v <= t /\ t < s }
                     ds == { 1 + Dist(v, t) : t \in hops }
                 IN  IF ds = {} THEN MaxVersions + 1
                     ELSE IF Min(ds) > MaxVersions THEN MaxVersions + 1
                     ELSE Min(ds)
    IN  pc \in {"upgrade", "done"} =>
            Len(upgraders) <= Dist(version, Len(vers_schemas))

\* C4, amended: the chain selected is a chain of declared upgraders that
\* leads from the stored version to the latest version, of at most
\* (latest - stored) steps, in which every hop is the longest hop into its
\* target that does not start before the stored version.
C4_GreedyChain ==
    pc \in {"upgrade", "done"} =>
        LET n == Len(upgraders)
        IN  /\ n <= Len(vers_schemas) - version
            /\ n = 0 => version = Len(vers_schemas)
            /\ n > 0 => /\ upgraders[1][2] = Len(vers_schemas)
                        /\ upgraders[n][1] = version
            /\ \A i \in 1..n :
                  /\ upgraders[i][1] < upgraders[i][2]
                  /\ upgraders[i][1] \in vers_schemas[upgraders[i][2]].upgraders
                  /\ i < n => upgraders[i + 1][2] = upgraders[i][1]
                  /\ \A t \in vers_schemas[upgraders[i][2]].upgraders :
                        version <= t => upgraders[i][1] <= t

\* The selected chain 1->2->3->5 has three steps, 1->4->5 has two.
C4_Witness ==
    /\ pc = "done"
    /\ Len(vers_schemas) = 5
    /\ vers_schemas[5].upgraders = {3, 4}
    /\ vers_schemas[4].upgraders = {1, 3}
    /\ version = 1
    /\ Len(upgraders) = 3

\* C5: a state whose version entry is absent, is not an integer, is below
\* 1 or is above the latest version is rejected before the search: the
\* pipeline stays empty, nothing is called and the object gets no values.
C5_InvalidVersionRejected ==
    (/\ Len(vers_schemas) > 0
     /\ pc # "start"
     /\ \/ state.vkind # "int"
        \/ state.version < 1
        \/ state.version > Len(vers_schemas))
    => /\ pc = "error"
       /\ calls = <<>>
       /\ err \in {"unversioned", "invalid version"}
       /\ err = "unversioned" <=> state.vkind = "absent"
       /\ upgraders = <<>>
       /\ ~obj.has_values

C5_Witness ==
    /\ pc = "error"
    /\ err = "invalid version"
    /\ state.vkind = "int"
    /\ state.version = Len(vers_schemas) + 1
    /\ Len(vers_schemas) >= 2
    /\ calls = <<>>

\* C6: when the current schema of the search declares no upgrader with a
\* source version in [version, schema_vers), the next step raises the
\* missing upgrader error; and whenever that error has been raised no
\* upgrader has been called, no state has been handed to a schema and the
\* object has no values, whatever upgraders were selected before.
C6_MissingUpgraderFailsEarly ==
    /\ [](err = "missing upgrader" =>
            /\ pc = "error"
            /\ calls = <<>>
            /\ ~obj.has_values
            /\ state.version = version)
    /\ [][ (/\ pc = "resolve"
            /\ version # schema_vers
            /\ \A t \in vers_schemas[schema].upgraders :
                  ~(version <= t /\ t < schema_vers))
           => (pc' = "error" /\ err' = "missing upgrader") ]_vars

C6_Witness ==
    /\ err = "missing upgrader"
    /\ upgraders # <<>>
    /\ \E i \in 1..Len(vers_schemas) : version \in vers_schemas[i].upgraders

C8_RoundTripAcceptedUnchanged ==
    LET target == vers_schemas[Len(vers_schemas)]
    IN  (/\ pc \in {"done", "error"}
         /\ src = "to_dict"
         /\ \A k \in DOMAIN record.attrs :
               LET r == validate(target.attrs[k].validate, record.attrs[k])
               IN  r.ok /\ r.val = record.attrs[k])
        => /\ pc = "done"
           /\ \A i \in 1..Len(calls) : calls[i].op # "upgrader"
           /\ obj.has_values
           /\ obj.values = orig.values
           /\ Schema_getstate(target, obj.values) = record

\* C8, amended: when the validators of the latest schema turn every value
\* that the serializers produced for orig.to_dict() back into the value of
\* orig it was produced from, from_dict(orig.to_dict()) succeeds without
\* calling an upgrader, the new object's values equal those of orig and its
\* to_dict() equals the record.
C8_RoundTripInverse ==
    LET target == vers_schemas[Len(vers_schemas)]
    IN  (/\ pc \in {"done", "error"}
         /\ src = "to_dict"
         /\ \A k \in DOMAIN record.attrs :
               LET r == validate(target.attrs[k].validate, record.attrs[k])
               IN  r.ok /\ r.val = orig.values.vals[k])
        => /\ pc = "done"
           /\ \A i \in 1..Len(calls) : calls[i].op # "upgrader"
           /\ obj.has_values
           /\ obj.values = orig.values
           /\ Schema_getstate(target, obj.values) = record

\* A round trip through a serializer that changes the value and a
\* validator that changes it back.
C8_Witness ==
    /\ pc = "done"
    /\ src = "to_dict"
    /\ Len(vers_schemas) = 2
    /\ vers_schemas[2].attrs["a"].getstate = "inc"
    /\ vers_schemas[2].attrs["a"].validate = "dec"
    /\ record.attrs["a"] = orig.values.vals["a"] + 1
    /\ obj.values = orig.values
    /\ obj.version.version = 2

\* C9 as stated: a concrete schema's __setstate__ accepts a state if and
\* only if the state's version entry equals the schema's version and its
\* other keys are exactly the declared attributes.
C9_AcceptsIffVersionAndKeys ==
    (pc = "sch_done" /\ sch_cls.version >= 1) =>
        (sch_err = "" <=>
            /\ sch_arg.vkind = "int"
            /\ sch_arg.version = sch_cls.version
            /\ DOMAIN sch_arg.attrs = DOMAIN sch_cls.attrs)

\* C9, amended: a concrete schema's __setstate__ accepts a state if and
\* only if the state's version entry equals the schema's version, its other
\* keys are exactly the declared attributes (declared defaults do not stand
\* in for missing keys) and every attribute's validator accepts its value;
\* the instance is initialized exactly when the state is accepted.
C9_AcceptsIffVersionKeysAndValues ==
    (pc = "sch_done" /\ sch_cls.version >= 1) =>
        /\ sch_err = "" <=>
            /\ sch_arg.vkind = "int"
            /\ sch_arg.version = sch_cls.version
            /\ DOMAIN sch_arg.attrs = DOMAIN sch_cls.attrs
            /\ \A k \in DOMAIN sch_arg.attrs \cap DOMAIN sch_cls.attrs :
                  validate(sch_cls.attrs[k].validate, sch_arg.attrs[k]).ok
        /\ sch.init <=> sch_err = ""
        /\ sch.init => DOMAIN sch.vals = DOMAIN sch_cls.attrs

\* A state that lacks only an attribute declared with a default is rejected.
C9_Witness ==
    /\ pc = "sch_done"
    /\ sch_cls.version >= 1
    /\ sch_err = "ValueError"
    /\ ~sch.init
    /\ sch_arg.vkind = "int"
    /\ sch_arg.version = sch_cls.version
    /\ DOMAIN sch_cls.attrs = {"a", "b"}
    /\ DOMAIN sch_arg.attrs = {"a"}
    /\ sch_cls.attrs["b"].default # Unset
    /\ validate(sch_cls.attrs["a"].validate, sch_arg.attrs["a"]).ok

\* C10: defining a versioned object type fails with a TypeError unless the
\* concrete schemas among the members have pairwise distinct versions that
\* are exactly 1..n (n their number); otherwise it succeeds, abstract
\* schemas and other members are left out, the i-th schema of the lineage
\* has version i, and the class-level __version__ is n, unbound (0 when
\* there is no concrete schema).
C10_ContiguousVersions ==
    LET cs == { k \in DOMAIN namespace :
                  namespace[k].kind = "schema" /\ namespace[k].cls.version >= 1 }
        n == Cardinality(cs)
        good == \A i \in 1..n :
                   Cardinality({ k \in cs : namespace[k].cls.version = i }) = 1
    IN  vobject.status # "none" =>
          /\ ~good => vobject.status = "TypeError"
          /\ good =>
              /\ vobject.status = "ok"
              /\ Len(vobject.schemas) = n
              /\ \A i \in 1..n :
                    /\ vobject.schemas[i].version = i
                    /\ \E k \in cs : namespace[k].cls = vobject.schemas[i]
              /\ vobject.version.version = n
              /\ vobject.version.schema =
                    (IF n = 0 THEN <<>> ELSE <<vobject.schemas[n]>>)
              /\ vobject.version.master = ""

\* Two concrete schemas and an abstract one: accepted, the abstract one left
\* out.
C10_Witness ==
    /\ vobject.status = "ok"
    /\ Len(vobject.schemas) = 2
    /\ vobject.version.version = 2
    /\ \E k \in DOMAIN namespace :
          namespace[k].kind = "schema" /\ namespace[k].cls.version = 0

\* C11, as stated: every accepted schema of version V > 1 has exactly one
\* registered upgrader, from a version U < V, which is V - 1 when the
\* upgrader names no version.
C11_ExactlyOneUpgrader ==
    (schema_new.status = "ok" /\ schema_new.cls.version > 1) =>
        /\ Cardinality(schema_new.cls.upgraders) = 1
        /\ \A u \in schema_new.cls.upgraders : u < schema_new.cls.version
        /\ 0 \in body.upgraders =>
              (schema_new.cls.version - 1) \in schema_new.cls.upgraders

\* C11, amended: every accepted schema of version V > 1 has at least one
\* registered upgrader, one of them from version V - 1; every registered
\* source version U satisfies 1 <= U < V; the registered source versions
\* are the versions the upgraders name, with V - 1 for an upgrader that
\* names none.
C11_UpgradersOfAcceptedSchema ==
    (schema_new.status = "ok" /\ schema_new.cls.version > 1) =>
        /\ schema_new.cls.upgraders # {}
        /\ (schema_new.cls.version - 1) \in schema_new.cls.upgraders
        /\ \A u \in schema_new.cls.upgraders :
              1 <= u /\ u < schema_new.cls.version
        /\ schema_new.cls.upgraders =
              (body.upgraders \ {0})
              \cup (IF 0 \in body.upgraders
                    THEN {schema_new.cls.version - 1} ELSE {})

\* A version-3 schema with an upgrader from version 1 and a bare upgrader
\* is accepted with upgraders from 1 and 2.
C11_Witness ==
    /\ schema_new.status = "ok"
    /\ schema_new.cls.version = 3
    /\ body.upgraders = {0, 1}
    /\ schema_new.cls.upgraders = {1, 2}

\* C12: a class body of version V > 1 without an upgrader from version
\* V - 1 is rejected with a TypeError, whatever other upgraders it has; a
\* version-1 body without upgraders and downgraders is accepted.
C12_PreviousUpgraderRequired ==
    LET abstract == body.version = Unset /\ body.base = 0
        v == IF body.version # Unset THEN body.version ELSE body.base + 1
        sources == { IF m = 0 THEN v - 1 ELSE m : m \in body.upgraders }
    IN  schema_new.status # "none" =>
          /\ (~abstract /\ v > 1 /\ (v - 1) \notin sources) =>
                schema_new.status = "TypeError"
          /\ (~abstract /\ v = 1 /\ body.upgraders = {}
                /\ body.downgraders = {}) =>
                (schema_new.status = "ok" /\ schema_new.cls.version = 1)

\* A version-3 body whose only upgrader comes from version 1 is rejected.
C12_Witness ==
    /\ schema_new.status = "TypeError"
    /\ body.version = 3
    /\ body.upgraders = {1}
    /\ body.downgraders = {}

\* C13: in an accepted schema of version V every registered upgrade source
\* and every registered downgrade target is below V; a body that declares
\* an upgrader or a downgrader is rejected with a TypeError when it is
\* abstract, when its version is 1, or when the version named is V or more.
C13_OlderVersionsOnly ==
    LET abstract == body.version = Unset /\ body.base = 0
        v == IF body.version # Unset THEN body.version ELSE body.base + 1
        sources == { IF m = 0 THEN v - 1 ELSE m : m \in body.upgraders }
        declares == body.upgraders # {} \/ body.downgraders # {}
    IN  /\ schema_new.status = "ok" =>
              \A o \in schema_new.cls.upgraders \cup schema_new.cls.downgraders :
                 o < schema_new.cls.version
        /\ (schema_new.status # "none" /\ declares /\ (abstract \/ v = 1)) =>
              schema_new.status = "TypeError"
        /\ (schema_new.status # "none" /\ ~abstract
              /\ \E o \in sources \cup body.downgraders : o >= v) =>
              schema_new.status = "TypeError"

\* A version-2 body with a bare upgrader and a downgrader to version 2 is
\* rejected.
C13_Witness ==
    /\ schema_new.status = "TypeError"
    /\ body.version = 2
    /\ body.upgraders = {0}
    /\ body.downgraders = {2}

\* C14: with a schema of version N attached, available() is {N} together
\* with the keys of the schema's downgrade map, and "k in sv" holds exactly
\* for the members of that set; without a schema available() is empty and
\* membership is always false.
C14_AvailableAndMembership ==
    LET expected == IF answer.sv.schema = <<>> THEN {}
                    ELSE {answer.sv.schema[1].version}
                         \cup answer.sv.schema[1].downgraders
    IN  /\ answer.op = "available" => answer.avail = expected
        /\ answer.op = "contains" => (answer.found <=> answer.key \in expected)

\* The version of the schema is a member although the SmartVersion itself
\* has another value.
C14_Witness ==
    /\ answer.op = "contains"
    /\ answer.sv.version = 1
    /\ answer.sv.schema # <<>>
    /\ answer.sv.schema[1].version = 3
    /\ answer.sv.schema[1].downgraders = {1}
    /\ answer.key = 3
    /\ answer.found

\* C15: len() is the number of entries of the schema's downgrade map plus
\* one, and 0 when no schema is attached.
C15_Length ==
    answer.op = "len" =>
        answer.len = (IF answer.sv.schema = <<>> THEN 0
                      ELSE Cardinality(answer.sv.schema[1].downgraders) + 1)

\* A version-4 schema with downgraders to 1 and 2 has length 3.
C15_Witness ==
    /\ answer.op = "len"
    /\ answer.sv.schema # <<>>
    /\ answer.sv.schema[1].version = 4
    /\ answer.sv.schema[1].downgraders = {1, 2}
    /\ answer.len = 3

\* C16: indexing a SmartVersion without a master raises RuntimeError for
\* every key, with or without a schema attached.
C16_NoMasterUsageError ==
    (answer.op \in {"getitem", "version_getitem"} /\ answer.sv.master = "") =>
        (answer.err = "RuntimeError" /\ ~answer.consulted)

\* Neither a master nor a schema: the error is the usage error, not the
\* missing-key error.
C16_Witness ==
    /\ answer.op = "getitem"
    /\ answer.sv.master = ""
    /\ answer.sv.schema = <<>>
    /\ answer.err = "RuntimeError"

\* C17: indexing a SmartVersion that has a master with a key outside the
\* downgrade map never reads the master's cache or accessor: the master
\* itself is returned when a schema is attached and the key is its version,
\* and KeyError is raised otherwise, also when no schema is attached.
C17_MasterOrMissingKey ==
    LET noschema == answer.sv.schema = <<>>
        mapped == ~noschema /\ answer.key \in answer.sv.schema[1].downgraders
        current == ~noschema /\ answer.key = answer.sv.schema[1].version
    IN  (/\ answer.op \in {"getitem", "version_getitem"}
         /\ answer.sv.master # ""
         /\ ~mapped) =>
            /\ ~answer.consulted
            /\ current => (answer.err = "" /\ answer.item = answer.sv.master)
            /\ ~current => answer.err = "KeyError"

\* The master's cache holds version 2, the schema has no downgrader to it:
\* KeyError, and the cache is not read.
C17_Witness ==
    /\ answer.op = "getitem"
    /\ answer.sv.master = "mock"
    /\ answer.sv.schema # <<>>
    /\ answer.sv.schema[1].version = 3
    /\ answer.sv.schema[1].downgraders = {1}
    /\ answer.key = 2
    /\ 2 \in DOMAIN cache
    /\ answer.err = "KeyError"
    /\ ~answer.consulted

\* C18: indexing the __version__ of a live versioned object with a key of
\* the downgrade map returns a projection, without an error, also when
\* nothing has been cached.
C18_ProjectionOnDemand ==
    (/\ answer.op \in {"getitem", "version_getitem"}
     /\ orig.has_values
     /\ answer.sv = orig.version
     /\ answer.key \in answer.sv.schema[1].downgraders) =>
        answer.err = ""

C20_BehavesAsInt ==
    LET a == answer.sv.version
        b == IF answer.operand.smart THEN answer.operand.sv.version
             ELSE answer.operand.val
        plain(x, y) == IF answer.op \in Comparisons
                       THEN IntCompare(answer.op, x, y)
                       ELSE IntBinary(answer.op, x, y)
    IN  /\ answer.side = "left" => answer.value = plain(a, b)
        /\ answer.side = "right" => answer.value = plain(b, a)
        /\ answer.side = "unary" => answer.value = IntUnary(answer.op, a)

\* -1 - sv with sv of value 2 is -3.
C20_Witness ==
    /\ answer.side = "right"
    /\ answer.op = "sub"
    /\ answer.sv.version = 2
    /\ answer.operand = IntOperand(-1)
    /\ answer.value = IntValue(-3)

\* C21: on a versioned-object class without schemas, construction,
\* __setstate__ and from_dict raise at once: no upgrader is called, no
\* state is loaded and no instance is initialized; instantiating an
\* abstract Schema raises a TypeError and leaves no instance.
C21_AbstractRejected ==
    /\ [](/\ Len(vers_schemas) = 0 =>
                /\ ~orig.has_values
                /\ ~obj.has_values
                /\ calls = <<>>
                /\ pc \notin {"resolve", "upgrade", "done"}
                /\ (pc = "error" => err = "abstract")
          /\ (sch_op.op = "new" /\ sch_cls.version = 0) =>
                /\ sch_op.err = "TypeError"
                /\ pc = "sch_none"
                /\ ~sch.init)
    /\ [][(Len(vers_schemas) = 0 /\ pc = "start") =>
             (pc' = "error" /\ err' = "abstract")]_vars

\* from_dict on a class without schemas has raised.
C21_Witness ==
    /\ Len(vers_schemas) = 0
    /\ pc = "error"
    /\ err = "abstract"
    /\ src = "dict"
    /\ state.vkind = "int"
    /\ state.version = 1

\* C22: the upgraders executed for a record of version V form a contiguous
\* chain: the first one upgrades from V, each next one upgrades from the
\* version of the schema that owns the previous one, each call receives the
\* state tagged with the upgrader's source version and returns it tagged
\* with the version of the owning schema, which is larger, and once the
\* whole pipeline has run the tag is the latest version N.
C22_ContiguousChain ==
    LET ups == SelectSeq(calls, LAMBDA c : c.op = "upgrader")
    IN  /\ \A i \in 1..Len(ups) :
              /\ ups[i].upgrader[1] =
                    (IF i = 1 THEN version ELSE ups[i - 1].upgrader[2])
              /\ ups[i].arg.vkind = "int"
              /\ ups[i].arg.version = ups[i].upgrader[1]
              /\ ups[i].ret.vkind = "int"
              /\ ups[i].ret.version = ups[i].upgrader[2]
              /\ ups[i].upgrader[1] < ups[i].upgrader[2]
        /\ (pc \in {"upgrade", "done"} /\ ncalled = Len(upgraders)
              /\ ncalled > 0) =>
              (/\ Len(ups) = ncalled
               /\ ups[ncalled].upgrader[2] = Len(vers_schemas)
               /\ state.vkind = "int"
               /\ state.version = Len(vers_schemas))

\* A version-1 record of a lineage of five schemas upgraded in three
\* steps.
C22_Witness ==
    /\ pc = "done"
    /\ Len(vers_schemas) = 5
    /\ version = 1
    /\ ncalled = 3
    /\ state.version = 5

\* C23: a call of an upgrader through the pipeline leaves the mapping of
\* the caller as it was, version entry included; the upgrader receives the
\* same attributes without the version entry; the result is what the
\* upgrader returns, tagged with the version of the schema that owns it.
C23_InputStatePreserved ==
    \A i \in 1..Len(calls) :
        calls[i].op = "upgrader" =>
            /\ calls[i].after = calls[i].arg
            /\ calls[i].arg.vkind = "int"
            /\ calls[i].received.vkind = "absent"
            /\ calls[i].received.attrs = calls[i].arg.attrs
            /\ calls[i].ret.vkind = "int"
            /\ calls[i].ret.version = calls[i].upgrader[2]
            /\ calls[i].ret.attrs =
                  UpgraderMethod(calls[i].upgrader, calls[i].received.attrs)

\* The upgrader from version 1 owned by the schema of version 2 has been
\* called on a version-1 mapping.
C23_Witness ==
    /\ Len(calls) >= 1
    /\ calls[1].op = "upgrader"
    /\ calls[1].upgrader = <<1, 2>>
    /\ calls[1].arg.version = 1
    /\ calls[1].after.version = 1
    /\ calls[1].received.vkind = "absent"
    /\ calls[1].ret.version = 2

\* C24: the downgrade map of an accepted lineage comes from the latest
\* schema only: its keys are the downgrade targets the latest schema
\* declares, each paired with the downgrade method of the latest schema and
\* the schema of the lineage that has the target version; the lookup of
\* that schema never fails; the map is empty when the latest schema
\* declares no downgrader or the lineage is empty.
C24_DowngradersFromLatest ==
    /\ vobject.status # "KeyError"
    /\ vobject.status = "ok" =>
          LET n == Len(vobject.schemas)
              latest == vobject.schemas[n]
          IN  /\ n = 0 => vobject.downgraders = EmptyMap
              /\ n > 0 =>
                    /\ DOMAIN vobject.downgraders = latest.downgraders
                    /\ \A vers \in DOMAIN vobject.downgraders :
                          /\ vers \in 1..(n - 1)
                          /\ vobject.downgraders[vers].schema = vobject.schemas[vers]
                          /\ vobject.downgraders[vers].schema.version = vers
                          /\ vobject.downgraders[vers].downgrader = <<vers, n>>

\* Three schemas: the latest downgrades to version 1 only, the schema of
\* version 2 declares a downgrader of its own that is left out.
C24_Witness ==
    /\ vobject.status = "ok"
    /\ Len(vobject.schemas) = 3
    /\ vobject.schemas[3].downgraders = {1}
    /\ vobject.schemas[2].downgraders = {1}
    /\ DOMAIN vobject.downgraders = {1}
    /\ vobject.downgraders[1].downgrader = <<1, 3>>

\* C25: a Downgrader called on a state of the current version hands the
\* downgrade method the mapping without its version entry, tags what the
\* method returns with the version of the older schema, and returns a new
\* instance of the older schema loaded from that state by __setstate__; the
\* call fails with a ValueError whenever the keys of the downgraded mapping
\* are not exactly the attributes of the older schema (or a validator
\* rejects a value), and then no instance is returned.
C25_DowngraderCall ==
    sch_op.op = "downgrade" =>
        LET older == sch_cls
            exact == DOMAIN sch_op.ret.attrs = DOMAIN older.attrs
            valid == \A k \in DOMAIN sch_op.ret.attrs \cap DOMAIN older.attrs :
                        validate(older.attrs[k].validate, sch_op.ret.attrs[k]).ok
        IN  /\ older = vers_schemas[sch_op.down[1]]
            /\ sch_op.arg.vkind = "int"
            /\ sch_op.arg.version = Len(vers_schemas)
            /\ sch_op.received.vkind = "absent"
            /\ sch_op.received.attrs = sch_op.arg.attrs
            /\ sch_op.ret.vkind = "int"
            /\ sch_op.ret.version = older.version
            /\ sch_op.ret.attrs = DowngraderMethod(sch_op.down, sch_op.received.attrs)
            /\ ~exact => (sch_op.err = "ValueError" /\ ~sch.init /\ pc = "sch_none")
            /\ (exact /\ ~valid) =>
                  (sch_op.err = "ValueError" /\ ~sch.init /\ pc = "sch_none")
            /\ (exact /\ valid) =>
                  /\ sch_op.err = ""
                  /\ pc = "sch_live"
                  /\ sch.init
                  /\ sch.vals = [k \in DOMAIN older.attrs |->
                                   validate(older.attrs[k].validate,
                                            sch_op.ret.attrs[k]).val]

\* The downgrade method drops "b" although the older schema declares it
\* with a default: the call fails.
C25_Witness ==
    /\ sch_op.op = "downgrade"
    /\ sch_op.down = <<1, 2, "drop">>
    /\ DOMAIN sch_op.arg.attrs = {"a", "b"}
    /\ DOMAIN sch_cls.attrs = {"a", "b"}
    /\ DOMAIN sch_op.ret.attrs = {"a"}
    /\ sch_op.err = "ValueError"
    /\ ~sch.init

\* A downgrade that succeeds and returns an initialized instance of the
\* older schema.
C25_WitnessLoaded ==
    /\ sch_op.op = "downgrade"
    /\ sch_op.err = ""
    /\ sch.init
    /\ sch_cls.version = 1
    /\ sch_op.arg.version = 2

\* C26: an instance created without values is uninitialized; while it is
\* uninitialized, attribute read, write and delete, ==, != and __getstate__
\* raise RuntimeError and leave it uninitialized; a failing __setstate__
\* leaves it uninitialized; only a successful __setstate__ initializes it;
\* and an initialized instance stays initialized under every operation.
C26_UninitializedUntilSetState ==
    /\ [](/\ (sch_op.op = "new" /\ ~sch_op.given /\ sch_op.err = "") =>
                (pc = "sch_live" /\ ~sch.init)
          /\ (sch_op.op \in {"getattr", "setattr", "delattr", "eq", "ne", "getstate"}
               /\ ~sch_op.before.init) =>
                (sch_op.err = "RuntimeError" /\ ~sch.init /\ sch_dict = EmptyMap)
          /\ (sch_op.op = "setstate" /\ ~sch_op.before.init /\ sch_op.err # "") =>
                ~sch.init
          /\ (sch_op.op = "setstate" /\ sch_op.err = "") => sch.init)
    /\ [][(pc = "sch_live" /\ pc' = "sch_live") =>
            /\ (~sch.init /\ sch'.init) =>
                  (sch_op'.op = "setstate" /\ sch_op'.err = "")
            /\ sch.init => sch'.init]_vars

\* An uninitialized instance refused an attribute read, and is still
\* uninitialized.
C26_Witness ==
    /\ pc = "sch_live"
    /\ sch_op.op = "getattr"
    /\ sch_op.name = "a"
    /\ ~sch_op.before.init
    /\ sch_op.err = "RuntimeError"
    /\ ~sch.init

\* An uninitialized instance was initialized by a successful __setstate__.
C26_WitnessLoaded ==
    /\ pc = "sch_live"
    /\ sch_op.op = "setstate"
    /\ ~sch_op.before.init
    /\ sch_op.err = ""
    /\ sch.init

\* C28: the keys of the stored values of an initialized instance are
\* exactly the declared attributes, whatever assignments, deletions and
\* __setstate__ calls came before; assigning an undeclared name leaves the
\* stored values as they were, deleting a declared attribute raises
\* AttributeError and leaves them as they were, and every stored value is
\* an output of the attribute's validator or the declared default.
C28_StoredKeysDeclared ==
    LET outputs(attr) ==
            { validate(attr.validate, x).val :
                x \in { y \in Values : validate(attr.validate, y).ok } }
            \cup (IF attr.default = Unset THEN {} ELSE {attr.default})
    IN  /\ (pc = "sch_live" /\ sch.init) =>
              /\ DOMAIN sch.vals = DOMAIN sch_cls.attrs
              /\ \A k \in DOMAIN sch.vals : sch.vals[k] \in outputs(sch_cls.attrs[k])
        /\ (sch_op.op = "setattr" /\ sch_op.name \notin DOMAIN sch_cls.attrs) =>
              sch = sch_op.before
        /\ (sch_op.op = "delattr" /\ sch_op.before.init
             /\ sch_op.name \in DOMAIN sch_cls.attrs) =>
              (sch_op.err = "AttributeError" /\ sch = sch_op.before)

\* An undeclared name was assigned on an initialized instance: it is in
\* the instance dictionary, the stored values are as before.
C28_Witness ==
    /\ pc = "sch_live"
    /\ sch_op.op = "setattr"
    /\ sch_op.name = "x"
    /\ sch_op.before.init
    /\ sch_op.err = ""
    /\ "x" \in DOMAIN sch_dict
    /\ DOMAIN sch.vals = {"a", "b"}

\* The deletion of a declared attribute was refused.
C28_WitnessDelete ==
    /\ pc = "sch_live"
    /\ sch_op.op = "delattr"
    /\ sch_op.name = "a"
    /\ sch_op.before.init
    /\ sch_op.err = "AttributeError"

\* C27: whenever VObject.__setstate__ has failed, the values holder and the
\* __version__ of the object are what they were before the call: the
\* object holds no schema instance that the call installed.
C27_FailureLeavesObject ==
    pc = "error" => obj = EmptyObject(vers_schemas)

\* C29: for a SmartVersion whose schema was accepted when it was defined,
\* len() is the number of elements of available(): the version of the
\* schema is never one of its downgrade targets, so adding it to the
\* targets always adds one element.  Both are 0 without a schema.
C29_LenIsAvailableCount ==
    /\ answer.op = "len" =>
          answer.len = Cardinality(SmartVersion_available(answer.sv))
    /\ answer.op = "available" =>
          Cardinality(answer.avail) = SmartVersion_len(answer.sv)
    /\ Len(vers_schemas) > 0 =>
          Len(vers_schemas) \notin vers_schemas[Len(vers_schemas)].downgraders

\* len() of the __version__ of a class of three schemas whose latest
\* schema downgrades to versions 1 and 2.
C29_Witness ==
    /\ answer.op = "len"
    /\ answer.sv = ClassVersion(vers_schemas)
    /\ Len(vers_schemas) = 3
    /\ vers_schemas[3].downgraders = {1, 2}
    /\ answer.len = 3

\* C30: the truth value of a SmartVersion is True whatever its version
\* value, 0 included, where the truth value of the plain int 0 is False.
C30_AlwaysTrue ==
    answer.op = "nonzero" => answer.value = BoolValue(TRUE)

\* bool(SmartVersion(0)) has been evaluated; bool(0) is False.
C30_Witness ==
    /\ answer.op = "nonzero"
    /\ answer.sv.version = 0
    /\ answer.value = BoolValue(TRUE)
    /\ BoolValue(answer.sv.version # 0) = BoolValue(FALSE)

====
